---- MODULE Spec2Model ----
(***************************************************************************)
(* Drift: streaming anomaly detection (CUMSUM / EWMA), the sustained-      *)
(* anomaly debounce of DriftMonitor.check_metrics, the DiscordNotifier     *)
(* state machine and the monitor's lock / worker-thread lifecycle.         *)
(*                                                                         *)
(* Numbers.  Every Python float is an exact rational <<n, d>> (d > 0,      *)
(* lowest terms); floating-point rounding is not modelled.                 *)
(* The EWMA score |v - mean| / max(sqrt(var), 0.01) is carried             *)
(* as its square (v - mean)^2 / max(var, 1/10000), and the comparison      *)
(* score > threshold_sigma as score^2 > threshold_sigma^2 (or threshold    *)
(* negative).                                                              *)
(*                                                                         *)
(* Python's Optional[x] is <<>> (None) or <<x>>.  A dict is a function     *)
(* whose DOMAIN is its key set.                                            *)
(***************************************************************************)
EXTENDS Integers, Sequences, FiniteSets, TLC

VARIABLES
    \* ---- DriftMonitor fields (src/drift/monitor.py:43-86)
    min_anomaly_duration,   \* self.min_anomaly_duration
    has_notifier,           \* self.notifier is not None
    configs,                \* self.configs: name -> MetricConfig
    detectors,              \* self.detectors: name -> CUMSUM
    ewma_detectors,         \* self.ewma_detectors: name -> EWMA
    custom_collectors,      \* keys of self.custom_collectors
    anomaly_history,        \* self.anomaly_history
    anomaly_counters,       \* self.anomaly_counters
    last_metric_values,     \* self.last_metric_values
    monitoring_active,      \* self.monitoring_active
    monitor_thread,         \* self.monitor_thread: <<>> or <<worker id>>
    stop_event,             \* self.stop_event (is_set)
    lock,                   \* self.lock: Free or the thread holding it
    \* ---- DiscordNotifier fields (src/drift/notifiers/discord.py:30-41)
    rate_limit_per_hour,
    enable_recovery,
    alert_timestamps,       \* defaultdict(list): name -> sequence of times
    alert_states,
    recovery_sent,
    \* ---- environment
    now,                    \* datetime.now().timestamp(), in seconds
    transport_ok,           \* whether requests.post currently succeeds
    \* ---- threads
    pc,                     \* control point of every thread
    op_arg,                 \* argument of the call each caller is in
    \* ---- what the last operation did and returned
    last_op,                \* name of the last completed operation
    result,                 \* value returned by the last check_metrics
    returned,               \* value returned by the last notifier call
    dispatched,             \* payloads handed to the transport by the last operation
    \* ---- history variables used to state the claims
    detected,               \* metrics with a raw positive in the last cycle
    streak,                 \* per metric: consecutive raw-positive cycles so far
    prev_sustained,         \* metrics sustained in the cycle before the last one
    pre_alarm,              \* alert_states as read (.get(m, False)) before the last cycle
    pre_counters,           \* anomaly_counters (.get(m, 0)) before the last cycle
    collected,              \* what the collectors returned or raised in the last collection
    alert_log,              \* kind, metric, time and return value of the notifier's send calls so far
    only_alerts,            \* every notifier call so far was send_anomaly_alert, transport up
    steps,                  \* number of monitor operations performed
    \* ---- a detector object used on its own (drift/algorithms)
    lone_detector,          \* the CUMSUM or EWMA object
    lone_updates,           \* its update calls since it was built, reset or given a reference
    fresh_detector          \* a twin built anew when lone_detector was last reset, and its updates

vars == << min_anomaly_duration, has_notifier, configs, detectors, ewma_detectors,
           custom_collectors, anomaly_history, anomaly_counters, last_metric_values,
           monitoring_active, monitor_thread, stop_event, lock,
           rate_limit_per_hour, enable_recovery, alert_timestamps, alert_states,
           recovery_sent, now, transport_ok, pc, op_arg, last_op, result, returned,
           dispatched, detected, streak, prev_sustained, pre_alarm, pre_counters,
           collected,
           alert_log, only_alerts, steps, lone_detector, lone_updates,
           fresh_detector >>

monitorVars == << min_anomaly_duration, has_notifier, configs, detectors, ewma_detectors,
                  custom_collectors, anomaly_history, anomaly_counters,
                  last_metric_values >>
notifierVars == << rate_limit_per_hour, enable_recovery, alert_timestamps, alert_states,
                   recovery_sent >>
threadVars == << monitoring_active, monitor_thread, stop_event, lock, pc, op_arg >>
cycleObs == << result, detected, streak, prev_sustained, pre_alarm, pre_counters,
              collected >>
notifierObs == << returned, alert_log, only_alerts >>
standaloneVars == << lone_detector, lone_updates, fresh_detector >>

----------------------------------------------------------------------------
\* Bounds of the model

MaxSteps == 5           \* monitor operations (check_metrics, reset) per behaviour
MaxMinDuration == 2     \* min_anomaly_duration ranges over 1 .. MaxMinDuration
MaxSample == 4          \* the largest sample value fed to a detector
MaxRateLimit == 2       \* rate_limit_per_hour of a directly built notifier: 1 .. MaxRateLimit
MaxCalls == 3           \* direct notifier calls per behaviour
MaxTicks == 1            \* hours of notifier time a behaviour spans, in steps of TimeStep
MaxWorkers == 2         \* worker threads start() may create per behaviour
MaxGatewayChecks == 2    \* check_metrics calls per behaviour of SpecGateway
MaxHistoryChecks == 103  \* monitor operations per behaviour of SpecHistory
MaxAdminOps == 4        \* operations performed in SpecAdmin
MaxDetectorOps == 5     \* calls made on a detector object in SpecDetector
MaxValue == 4           \* largest value fed to a detector object in SpecDetector
MaxCycleChecks == 2     \* check_metrics() calls per behaviour of SpecCycle
MaxBandChecks == 4      \* check_metrics() calls per behaviour of SpecBand
MaxOps == 4             \* calls each caller thread makes per behaviour

\* Program constants
Hour == 3600                    \* _is_rate_limited: hour_ago = now - 3600
HistoryCap == 100               \* anomaly_history[-100:]
DefaultRateLimit == 10          \* DiscordNotifier(rate_limit_per_hour=10)
CheckInterval == 5              \* DriftMonitor(check_interval=5)

Metrics == {"cpu_percent", "net_sent_mb"}

----------------------------------------------------------------------------
\* Optional values and dicts

None == << >>
Some(x) == << x >>
IsNone(o) == o = << >>
The(o) == o[1]

EmptyDict == << >>
Has(d, k) == k \in DOMAIN d
Get(d, k, default) == IF k \in DOMAIN d THEN d[k] ELSE default
Put(d, k, v) == [x \in (DOMAIN d) \cup {k} |-> IF x = k THEN v ELSE d[x]]
Del(d, k) == [x \in (DOMAIN d) \ {k} |-> d[x]]

----------------------------------------------------------------------------
\* Exact rationals <<n, d>>, d > 0, in lowest terms

Abs(x) == IF x < 0 THEN -x ELSE x

RECURSIVE GCD(_, _)
GCD(a, b) == IF b = 0 THEN a ELSE GCD(b, a % b)

Rat(n, d) ==
    LET g == GCD(Abs(n), Abs(d))
        s == IF d < 0 THEN -1 ELSE 1
    IN  << (s * n) \div g, (s * d) \div g >>
RInt(i) == << i, 1 >>
RAdd(x, y) == Rat(x[1] * y[2] + y[1] * x[2], x[2] * y[2])
RSub(x, y) == Rat(x[1] * y[2] - y[1] * x[2], x[2] * y[2])
RMul(x, y) == Rat(x[1] * y[1], x[2] * y[2])
RDiv(x, y) == Rat(x[1] * y[2], x[2] * y[1])
RLess(x, y) == x[1] * y[2] < y[1] * x[2]
RMax(x, y) == IF RLess(x, y) THEN y ELSE x
ROne == << 1, 1 >>
RZero == << 0, 1 >>

\* a sample that is not a number: Python's None, as a custom collector may return it
NotANumber == << >>
\* the attribute value after `self.x = value`: None stays None
AsOptional(value) == IF value = NotANumber THEN None ELSE Some(value)

----------------------------------------------------------------------------
\* drift/algorithms/cumsum.py

\* CUMSUM.__init__
CUMSUM(threshold, drift) ==
    [threshold |-> threshold, drift |-> drift,
     cumsum_pos |-> RZero, cumsum_neg |-> RZero, reference_mean |-> None]

\* CUMSUM.set_reference
set_reference(det, mean) == [det EXCEPT !.reference_mean = Some(mean)]

\* CUMSUM.update without the max(0.0, ...) of its two accumulator assignments
CUMSUM_update_unclamped(det, value) ==
    IF IsNone(det.reference_mean)
    THEN [det |-> [det EXCEPT !.reference_mean = AsOptional(value)],
          is_anomaly |-> FALSE, score |-> RZero, raised |-> FALSE]
    ELSE IF value = NotANumber
    THEN [det |-> det, is_anomaly |-> FALSE, score |-> RZero, raised |-> TRUE]
    ELSE LET deviation == RSub(RSub(value, The(det.reference_mean)), det.drift)
             pos == RAdd(det.cumsum_pos, deviation)
             neg == RSub(det.cumsum_neg, deviation)
             max_cumsum == RMax(pos, neg)
         IN  IF RLess(det.threshold, max_cumsum)
             THEN [det |-> [det EXCEPT !.cumsum_pos = RZero, !.cumsum_neg = RZero],
                   is_anomaly |-> TRUE, score |-> max_cumsum, raised |-> FALSE]
             ELSE [det |-> [det EXCEPT !.cumsum_pos = pos, !.cumsum_neg = neg],
                   is_anomaly |-> FALSE, score |-> max_cumsum, raised |-> FALSE]

\* CUMSUM.update without the reset of the accumulators after a detection
CUMSUM_update_keeps_sums(det, value) ==
    IF IsNone(det.reference_mean)
    THEN [det |-> [det EXCEPT !.reference_mean = AsOptional(value)],
          is_anomaly |-> FALSE, score |-> RZero, raised |-> FALSE]
    ELSE IF value = NotANumber
    THEN [det |-> det, is_anomaly |-> FALSE, score |-> RZero, raised |-> TRUE]
    ELSE LET deviation == RSub(RSub(value, The(det.reference_mean)), det.drift)
             pos == RMax(RZero, RAdd(det.cumsum_pos, deviation))
             neg == RMax(RZero, RSub(det.cumsum_neg, deviation))
             max_cumsum == RMax(pos, neg)
         IN  [det |-> [det EXCEPT !.cumsum_pos = pos, !.cumsum_neg = neg],
              is_anomaly |-> RLess(det.threshold, max_cumsum), score |-> max_cumsum,
              raised |-> FALSE]

\* CUMSUM.update that takes the value of a detection as its new reference
CUMSUM_update_recentres(det, value) ==
    IF IsNone(det.reference_mean)
    THEN [det |-> [det EXCEPT !.reference_mean = AsOptional(value)],
          is_anomaly |-> FALSE, score |-> RZero, raised |-> FALSE]
    ELSE IF value = NotANumber
    THEN [det |-> det, is_anomaly |-> FALSE, score |-> RZero, raised |-> TRUE]
    ELSE LET deviation == RSub(RSub(value, The(det.reference_mean)), det.drift)
             pos == RMax(RZero, RAdd(det.cumsum_pos, deviation))
             neg == RMax(RZero, RSub(det.cumsum_neg, deviation))
             max_cumsum == RMax(pos, neg)
         IN  IF RLess(det.threshold, max_cumsum)
             THEN [det |-> [det EXCEPT !.cumsum_pos = RZero, !.cumsum_neg = RZero,
                                       !.reference_mean = Some(value)],
                   is_anomaly |-> TRUE, score |-> max_cumsum, raised |-> FALSE]
             ELSE [det |-> [det EXCEPT !.cumsum_pos = pos, !.cumsum_neg = neg],
                   is_anomaly |-> FALSE, score |-> max_cumsum, raised |-> FALSE]

\* CUMSUM.update: the detector after the call, the returned (is_anomaly, score), and
\* whether the call raised instead of returning (the arithmetic of the first statement
\* after the reference test fails on a value that is not a number)
CUMSUM_update(det, value) ==
    IF IsNone(det.reference_mean)
    THEN [det |-> [det EXCEPT !.reference_mean = AsOptional(value)],
          is_anomaly |-> FALSE, score |-> RZero, raised |-> FALSE]
    ELSE IF value = NotANumber
    THEN [det |-> det, is_anomaly |-> FALSE, score |-> RZero, raised |-> TRUE]
    ELSE LET deviation == RSub(RSub(value, The(det.reference_mean)), det.drift)
             pos == RMax(RZero, RAdd(det.cumsum_pos, deviation))
             neg == RMax(RZero, RSub(det.cumsum_neg, deviation))
             max_cumsum == RMax(pos, neg)
         IN  IF RLess(det.threshold, max_cumsum)
             THEN [det |-> [det EXCEPT !.cumsum_pos = RZero, !.cumsum_neg = RZero],
                   is_anomaly |-> TRUE, score |-> max_cumsum, raised |-> FALSE]
             ELSE [det |-> [det EXCEPT !.cumsum_pos = pos, !.cumsum_neg = neg],
                   is_anomaly |-> FALSE, score |-> max_cumsum, raised |-> FALSE]

\* CUMSUM.reset without its last assignment
CUMSUM_reset_keeps_reference(det) ==
    [det EXCEPT !.cumsum_pos = RZero, !.cumsum_neg = RZero]

\* CUMSUM.reset
CUMSUM_reset(det) ==
    [det EXCEPT !.cumsum_pos = RZero, !.cumsum_neg = RZero, !.reference_mean = None]

----------------------------------------------------------------------------
\* drift/algorithms/ewma.py

\* EWMA.__init__
EWMA(alpha, threshold_sigma) ==
    [alpha |-> alpha, threshold_sigma |-> threshold_sigma,
     ewma |-> None, ewmvar |-> None]

StdFloorSquared == Rat(1, 10000)    \* (0.01)^2, the floor of the standard deviation

\* EWMA.update that takes diff against the mean it has just stored
EWMA_update_diff_after(det, value) ==
    IF IsNone(det.ewma)
    THEN [det |-> [det EXCEPT !.ewma = AsOptional(value), !.ewmvar = Some(RZero)],
          is_anomaly |-> FALSE, score |-> RZero, raised |-> FALSE]
    ELSE IF value = NotANumber
    THEN [det |-> det, is_anomaly |-> FALSE, score |-> RZero, raised |-> TRUE]
    ELSE LET v == value
             prev_ewma == The(det.ewma)
             mean == RAdd(RMul(det.alpha, v), RMul(RSub(ROne, det.alpha), prev_ewma))
             diff == RSub(v, mean)
             var == RAdd(RMul(det.alpha, RMul(diff, diff)),
                         RMul(RSub(ROne, det.alpha), The(det.ewmvar)))
             std_sq == RMax(var, StdFloorSquared)
             dev == RSub(v, mean)
             score_sq == RDiv(RMul(dev, dev), std_sq)
             th == det.threshold_sigma
         IN  [det |-> [det EXCEPT !.ewma = Some(mean), !.ewmvar = Some(var)],
              is_anomaly |-> RLess(th, RZero) \/ RLess(RMul(th, th), score_sq),
              score |-> score_sq, raised |-> FALSE]

\* EWMA.update: the detector after the call, the returned (is_anomaly, score^2), and
\* whether the call raised instead of returning
EWMA_update(det, value) ==
    IF IsNone(det.ewma)
    THEN [det |-> [det EXCEPT !.ewma = AsOptional(value), !.ewmvar = Some(RZero)],
          is_anomaly |-> FALSE, score |-> RZero, raised |-> FALSE]
    ELSE IF value = NotANumber
    THEN [det |-> det, is_anomaly |-> FALSE, score |-> RZero, raised |-> TRUE]
    ELSE LET v == value
             prev_ewma == The(det.ewma)
             mean == RAdd(RMul(det.alpha, v), RMul(RSub(ROne, det.alpha), prev_ewma))
             diff == RSub(v, prev_ewma)
             var == RAdd(RMul(det.alpha, RMul(diff, diff)),
                         RMul(RSub(ROne, det.alpha), The(det.ewmvar)))
             std_sq == RMax(var, StdFloorSquared)
             dev == RSub(v, mean)
             score_sq == RDiv(RMul(dev, dev), std_sq)
             th == det.threshold_sigma
         IN  [det |-> [det EXCEPT !.ewma = Some(mean), !.ewmvar = Some(var)],
              is_anomaly |-> RLess(th, RZero) \/ RLess(RMul(th, th), score_sq),
              score |-> score_sq, raised |-> FALSE]

\* EWMA.reset
EWMA_reset(det) == [det EXCEPT !.ewma = None, !.ewmvar = None]

----------------------------------------------------------------------------
\* drift/notifiers/discord.py
\* The notifier's three dicts travel as one record
\*   [ts |-> alert_timestamps, states |-> alert_states, sent |-> recovery_sent];
\* every method yields the notifier after the call (n), the returned value (ret)
\* and the payloads it handed to the transport (out).

Notifier == [ts |-> alert_timestamps, states |-> alert_states, sent |-> recovery_sent]

\* _is_rate_limited with the comparison of line 53 made strict
is_rate_limited_strict(n, metric_name, t, rate) ==
    LET hour_ago == t - Hour
        kept == SelectSeq(Get(n.ts, metric_name, << >>), LAMBDA ts : ts > hour_ago)
    IN  [n |-> [n EXCEPT !.ts = Put(n.ts, metric_name, kept)],
         limited |-> Len(kept) > rate]

\* DiscordNotifier._is_rate_limited: prunes the metric's list, then compares with the cap
is_rate_limited(n, metric_name, t, rate) ==
    LET hour_ago == t - Hour
        kept == SelectSeq(Get(n.ts, metric_name, << >>), LAMBDA ts : ts > hour_ago)
    IN  [n |-> [n EXCEPT !.ts = Put(n.ts, metric_name, kept)],
         limited |-> Len(kept) >= rate]

\* DiscordNotifier._record_alert
record_alert(n, metric_name, t) ==
    [n EXCEPT !.ts = Put(n.ts, metric_name, Append(Get(n.ts, metric_name, << >>), t))]

\* the embed built by send_anomaly_alert, with the outcome of _send_webhook
AlertPayload(anomaly, ok) ==
    [kind |-> "alert", metric |-> anomaly.metric, value |-> anomaly.value,
     severity |-> anomaly.severity, duration |-> anomaly.duration,
     algorithm |-> anomaly.algorithm, score |-> anomaly.score,
     timestamp |-> anomaly.timestamp, delivered |-> ok]

\* the embed built by send_recovery_notification, with the outcome of _send_webhook
RecoveryPayload(metric_name, previous_value, t, ok) ==
    [kind |-> "recovery", metric |-> metric_name, previous_value |-> previous_value,
     timestamp |-> t, delivered |-> ok]

\* send_anomaly_alert without the check of lines 92-95 (already in anomaly state)
send_anomaly_alert_no_dedupe(n, anomaly, t, ok, rate) ==
    LET metric_name == anomaly.metric
        rl == is_rate_limited(n, metric_name, t, rate)
    IN  IF rl.limited
        THEN [n |-> rl.n, ret |-> FALSE, out |-> << >>]
        ELSE IF ok
        THEN LET n1 == record_alert(rl.n, metric_name, t)
             IN  [n |-> [n1 EXCEPT !.states = Put(n1.states, metric_name, TRUE),
                                   !.sent = Put(n1.sent, metric_name, FALSE)],
                  ret |-> TRUE, out |-> << AlertPayload(anomaly, TRUE) >>]
        ELSE [n |-> rl.n, ret |-> FALSE, out |-> << AlertPayload(anomaly, FALSE) >>]

\* DiscordNotifier.send_anomaly_alert; ok: _send_webhook does not raise
send_anomaly_alert(n, anomaly, t, ok, rate) ==
    LET metric_name == anomaly.metric
        rl == is_rate_limited(n, metric_name, t, rate)
    IN  IF rl.limited
        THEN [n |-> rl.n, ret |-> FALSE, out |-> << >>]
        ELSE IF Get(rl.n.states, metric_name, FALSE)
        THEN [n |-> rl.n, ret |-> FALSE, out |-> << >>]
        ELSE IF ok
        THEN LET n1 == record_alert(rl.n, metric_name, t)
             IN  [n |-> [n1 EXCEPT !.states = Put(n1.states, metric_name, TRUE),
                                   !.sent = Put(n1.sent, metric_name, FALSE)],
                  ret |-> TRUE, out |-> << AlertPayload(anomaly, TRUE) >>]
        ELSE [n |-> rl.n, ret |-> FALSE, out |-> << AlertPayload(anomaly, FALSE) >>]

\* send_recovery_notification without the test of the metric's anomaly state
send_recovery_notification_any_state(n, metric_name, previous_value, t, ok, rate, recovery_enabled) ==
    IF ~recovery_enabled
    THEN [n |-> n, ret |-> FALSE, out |-> << >>]
    ELSE IF Get(n.sent, metric_name, FALSE)
    THEN [n |-> n, ret |-> FALSE, out |-> << >>]
    ELSE LET rl == is_rate_limited(n, metric_name, t, rate)
         IN  IF rl.limited
             THEN [n |-> rl.n, ret |-> FALSE, out |-> << >>]
             ELSE IF ok
             THEN LET n1 == record_alert(rl.n, metric_name, t)
                  IN  [n |-> [n1 EXCEPT !.states = Put(n1.states, metric_name, FALSE),
                                        !.sent = Put(n1.sent, metric_name, TRUE)],
                       ret |-> TRUE,
                       out |-> << RecoveryPayload(metric_name, previous_value, t, TRUE) >>]
             ELSE [n |-> rl.n, ret |-> FALSE,
                   out |-> << RecoveryPayload(metric_name, previous_value, t, FALSE) >>]

\* send_recovery_notification with _record_alert moved before _send_webhook
send_recovery_notification_record_first(n, metric_name, previous_value, t, ok, rate, recovery_enabled) ==
    IF ~recovery_enabled
    THEN [n |-> n, ret |-> FALSE, out |-> << >>]
    ELSE IF ~Get(n.states, metric_name, FALSE)
    THEN [n |-> n, ret |-> FALSE, out |-> << >>]
    ELSE IF Get(n.sent, metric_name, FALSE)
    THEN [n |-> n, ret |-> FALSE, out |-> << >>]
    ELSE LET rl == is_rate_limited(n, metric_name, t, rate)
         IN  IF rl.limited
             THEN [n |-> rl.n, ret |-> FALSE, out |-> << >>]
             ELSE LET n1 == record_alert(rl.n, metric_name, t)
                  IN  IF ok
                      THEN [n |-> [n1 EXCEPT !.states = Put(n1.states, metric_name, FALSE),
                                             !.sent = Put(n1.sent, metric_name, TRUE)],
                            ret |-> TRUE,
                            out |-> << RecoveryPayload(metric_name, previous_value, t,
                                                       TRUE) >>]
                      ELSE [n |-> n1, ret |-> FALSE,
                            out |-> << RecoveryPayload(metric_name, previous_value, t,
                                                       FALSE) >>]

\* DiscordNotifier.send_recovery_notification
send_recovery_notification(n, metric_name, previous_value, t, ok, rate, recovery_enabled) ==
    IF ~recovery_enabled
    THEN [n |-> n, ret |-> FALSE, out |-> << >>]
    ELSE IF ~Get(n.states, metric_name, FALSE)
    THEN [n |-> n, ret |-> FALSE, out |-> << >>]
    ELSE IF Get(n.sent, metric_name, FALSE)
    THEN [n |-> n, ret |-> FALSE, out |-> << >>]
    ELSE LET rl == is_rate_limited(n, metric_name, t, rate)
         IN  IF rl.limited
             THEN [n |-> rl.n, ret |-> FALSE, out |-> << >>]
             ELSE IF ok
             THEN LET n1 == record_alert(rl.n, metric_name, t)
                  IN  [n |-> [n1 EXCEPT !.states = Put(n1.states, metric_name, FALSE),
                                        !.sent = Put(n1.sent, metric_name, TRUE)],
                       ret |-> TRUE,
                       out |-> << RecoveryPayload(metric_name, previous_value, t, TRUE) >>]
             ELSE [n |-> rl.n, ret |-> FALSE,
                   out |-> << RecoveryPayload(metric_name, previous_value, t, FALSE) >>]

\* DiscordNotifier.update_metric_state
update_metric_state(n, metric_name, is_anomaly) ==
    LET was_anomaly == Get(n.states, metric_name, FALSE)
        sent1 == IF (was_anomaly /\ ~is_anomaly) \/ (~was_anomaly /\ is_anomaly)
                 THEN Put(n.sent, metric_name, FALSE)
                 ELSE n.sent
    IN  [n EXCEPT !.sent = sent1, !.states = Put(n.states, metric_name, is_anomaly)]

----------------------------------------------------------------------------
\* drift/config.py and the inputs the model draws from

\* MetricConfig.__init__ (description carries no behaviour and is left out)
MetricConfig(algorithm, threshold, drift, reference_mean, alpha, threshold_sigma, enabled) ==
    [algorithm |-> algorithm, threshold |-> threshold, drift |-> drift,
     reference_mean |-> reference_mean, alpha |-> alpha,
     threshold_sigma |-> threshold_sigma, enabled |-> enabled]

CfgCumsumRef ==
    MetricConfig("CUMSUM", Rat(2, 1), Rat(1, 2), Some(Rat(1, 2)), Rat(3, 10), Rat(3, 1), TRUE)
CfgCumsumNoRef ==
    MetricConfig("CUMSUM", Rat(2, 1), Rat(1, 2), None, Rat(3, 10), Rat(3, 1), TRUE)
CfgEwma ==
    MetricConfig("EWMA", Rat(5, 1), Rat(1, 2), None, Rat(1, 2), Rat(0, 1), TRUE)
CfgDisabled ==
    MetricConfig("CUMSUM", Rat(2, 1), Rat(1, 2), Some(Rat(1, 2)), Rat(3, 10), Rat(3, 1), FALSE)
ConfigChoices == {CfgCumsumNoRef, CfgEwma, CfgDisabled}

\* a config whose algorithm tag names no detector class, and the configs the
\* administration specification hands to update_metric_config
CfgUnknownAlgorithm ==
    MetricConfig("ZSCORE", Rat(2, 1), Rat(1, 2), None, Rat(3, 10), Rat(3, 1), TRUE)
AdminConfigs == ConfigChoices \cup {CfgCumsumRef, CfgUnknownAlgorithm}

\* the sample values fed to the detectors
SampleValues == {RInt(1), RInt(MaxSample)}

\* the metrics dicts a cycle is given: every metric sampled, or no sample at all
SampleMaps == [Metrics -> SampleValues] \cup {EmptyDict}

RECURSIVE SetToSeq(_)
SetToSeq(S) ==
    IF S = {} THEN << >>
    ELSE LET x == CHOOSE y \in S : TRUE IN << x >> \o SetToSeq(S \ {x})

\* seq[:n], the slice that keeps the oldest n elements
FirstN(seq, n) == IF Len(seq) <= n THEN seq ELSE SubSeq(seq, 1, n)

\* seq[-n:]
LastN(seq, n) == IF Len(seq) <= n THEN seq ELSE SubSeq(seq, Len(seq) - n + 1, Len(seq))

----------------------------------------------------------------------------
\* drift/monitor.py: detector construction

\* the detector an enabled config builds (_initialize_detectors, update_metric_config)
NewCumsum(config) ==
    LET detector == CUMSUM(config.threshold, config.drift)
    IN  IF ~IsNone(config.reference_mean)
        THEN set_reference(detector, The(config.reference_mean))
        ELSE detector
NewEwma(config) == EWMA(config.alpha, config.threshold_sigma)

\* DriftMonitor._initialize_detectors: the two detector maps built from cfgs
InitialDetectors(cfgs) ==
    [m \in {x \in DOMAIN cfgs : cfgs[x].enabled /\ cfgs[x].algorithm = "CUMSUM"}
        |-> NewCumsum(cfgs[m])]
InitialEwmaDetectors(cfgs) ==
    [m \in {x \in DOMAIN cfgs : cfgs[x].enabled /\ cfgs[x].algorithm = "EWMA"}
        |-> NewEwma(cfgs[m])]

\* update_metric_config without the removal from the map of the other algorithm
UpdateMetricConfigKeepsOther(metric_name, config) ==
    /\ configs' = Put(configs, metric_name, config)
    /\ detectors' =
         IF config.enabled /\ config.algorithm = "CUMSUM"
         THEN Put(Del(detectors, metric_name), metric_name, NewCumsum(config))
         ELSE IF config.enabled THEN detectors ELSE Del(detectors, metric_name)
    /\ ewma_detectors' =
         IF config.enabled /\ config.algorithm = "EWMA"
         THEN Put(Del(ewma_detectors, metric_name), metric_name, NewEwma(config))
         ELSE IF config.enabled THEN ewma_detectors ELSE Del(ewma_detectors, metric_name)

\* update_metric_config that removes the old detector only when it builds a new one
UpdateMetricConfigKeepsDisabled(metric_name, config) ==
    /\ configs' = Put(configs, metric_name, config)
    /\ detectors' =
         IF config.enabled /\ config.algorithm = "CUMSUM"
         THEN Put(Del(detectors, metric_name), metric_name, NewCumsum(config))
         ELSE IF config.enabled THEN Del(detectors, metric_name) ELSE detectors
    /\ ewma_detectors' =
         IF config.enabled /\ config.algorithm = "EWMA"
         THEN Put(Del(ewma_detectors, metric_name), metric_name, NewEwma(config))
         ELSE IF config.enabled THEN Del(ewma_detectors, metric_name) ELSE ewma_detectors

\* DriftMonitor.get_config: self.configs.get(metric_name)
get_config(metric_name) ==
    IF Has(configs, metric_name) THEN Some(configs[metric_name]) ELSE None

\* DriftMonitor.update_metric_config, the statements under the lock
UpdateMetricConfigBody(metric_name, config) ==
    /\ configs' = Put(configs, metric_name, config)
    /\ detectors' =
         IF config.enabled /\ config.algorithm = "CUMSUM"
         THEN Put(Del(detectors, metric_name), metric_name, NewCumsum(config))
         ELSE Del(detectors, metric_name)
    /\ ewma_detectors' =
         IF config.enabled /\ config.algorithm = "EWMA"
         THEN Put(Del(ewma_detectors, metric_name), metric_name, NewEwma(config))
         ELSE Del(ewma_detectors, metric_name)

----------------------------------------------------------------------------
\* drift/monitor.py: check_metrics, the statements under the lock

\* the CUMSUM loop without its try/except: the first update that raises ends the loop
CumsumUpdatesUnguarded(metrics) ==
    LET u == [m \in (DOMAIN detectors) \cap (DOMAIN metrics)
                 |-> CUMSUM_update(detectors[m], metrics[m])]
    IN  IF \E m \in DOMAIN u : u[m].raised
        THEN [m \in DOMAIN u |-> [det |-> detectors[m], is_anomaly |-> FALSE,
                                  score |-> RZero, raised |-> TRUE]]
        ELSE u

\* lines 258-300: every detector that has a sample is updated
CumsumUpdates(metrics) ==
    [m \in (DOMAIN detectors) \cap (DOMAIN metrics)
        |-> CUMSUM_update(detectors[m], metrics[m])]
EwmaUpdates(metrics) ==
    [m \in (DOMAIN ewma_detectors) \cap (DOMAIN metrics)
        |-> EWMA_update(ewma_detectors[m], metrics[m])]

\* the entries appended to detected_anomalies, CUMSUM loop first, then EWMA loop,
\* given the detector updates cu and eu of this cycle
DetectedAnomalies(metrics, cu, eu) ==
    LET cs == SetToSeq({m \in DOMAIN cu : cu[m].is_anomaly})
        es == SetToSeq({m \in DOMAIN eu : eu[m].is_anomaly})
    IN  [i \in 1 .. Len(cs) |->
            [metric |-> cs[i], value |-> metrics[cs[i]], score |-> cu[cs[i]].score,
             algorithm |-> "CUMSUM",
             config |-> [threshold |-> configs[cs[i]].threshold,
                         drift |-> configs[cs[i]].drift]]]
        \o
        [i \in 1 .. Len(es) |->
            [metric |-> es[i], value |-> metrics[es[i]], score |-> eu[es[i]].score,
             algorithm |-> "EWMA",
             config |-> [alpha |-> configs[es[i]].alpha,
                         threshold_sigma |-> configs[es[i]].threshold_sigma]]]

\* lines 263 and 283: the score of every detector update that returned
Scores(cu, eu) ==
    [m \in {x \in DOMAIN cu : ~cu[x].raised} \cup {x \in DOMAIN eu : ~eu[x].raised} |->
        IF m \in DOMAIN eu /\ ~eu[m].raised THEN eu[m].score ELSE cu[m].score]

\* severity with the comparison of line 318 made inclusive
SeverityInclusive(count, min_duration) ==
    IF count >= min_duration * 2 THEN "high" ELSE "medium"

\* severity of a sustained anomaly (line 318)
Severity(count, min_duration) == IF count > min_duration * 2 THEN "high" ELSE "medium"

\* the test of line 317 off by one
IsSustainedEarly(count, min_duration) == count >= min_duration - 1

\* whether a counter value is reported as sustained (line 317)
IsSustained(count, min_duration) == count >= min_duration

\* lines 307-323: counters incremented, sustained anomalies selected
RECURSIVE FilterSustained(_, _, _, _)
FilterSustained(anoms, counters, sustained, ts) ==
    IF anoms = << >> THEN [counters |-> counters, sustained |-> sustained]
    ELSE LET anomaly == Head(anoms)
             c == Get(counters, anomaly.metric, 0) + 1
             counters1 == Put(counters, anomaly.metric, c)
         IN  IF IsSustained(c, min_anomaly_duration)
             THEN FilterSustained(Tail(anoms), counters1,
                      Append(sustained,
                             [metric |-> anomaly.metric, value |-> anomaly.value,
                              score |-> anomaly.score, algorithm |-> anomaly.algorithm,
                              config |-> anomaly.config,
                              severity |-> Severity(c, min_anomaly_duration),
                              duration |-> c, timestamp |-> ts]), ts)
             ELSE FilterSustained(Tail(anoms), counters1, sustained, ts)

\* line 339 moved under the was_sustained test: shorter runs keep their count
ResetCounterIfSustained(count) == IF count >= min_anomaly_duration THEN 0 ELSE count

\* the value a counter takes when its metric has no raw positive (line 339)
ResetCounter(count) == 0

\* lines 331-339 with the counter reset of line 339 moved into the notifier branch
RECURSIVE ResetNormalOnlyNotified(_, _, _, _, _, _)
ResetNormalOnlyNotified(names, anomaly_metric_names, previous_sustained, counters, n, out) ==
    IF names = << >> THEN [counters |-> counters, n |-> n, out |-> out]
    ELSE IF Head(names) \notin anomaly_metric_names
            /\ Head(names) \in previous_sustained /\ has_notifier
            /\ Has(last_metric_values, Head(names))
    THEN LET r == send_recovery_notification(
                      update_metric_state(n, Head(names), FALSE), Head(names),
                      last_metric_values[Head(names)], now, transport_ok,
                      rate_limit_per_hour, enable_recovery)
         IN  ResetNormalOnlyNotified(Tail(names), anomaly_metric_names,
                                     previous_sustained, Put(counters, Head(names), 0),
                                     r.n, out \o r.out)
    ELSE ResetNormalOnlyNotified(Tail(names), anomaly_metric_names, previous_sustained,
                                 counters, n, out)

\* lines 331-339: metrics without a raw positive: recovery handling, counter reset
RECURSIVE ResetNormal(_, _, _, _, _, _)
ResetNormal(names, anomaly_metric_names, previous_sustained, counters, n, out) ==
    IF names = << >> THEN [counters |-> counters, n |-> n, out |-> out]
    ELSE LET metric_name == Head(names)
         IN  IF metric_name \in anomaly_metric_names
             THEN ResetNormal(Tail(names), anomaly_metric_names, previous_sustained,
                              counters, n, out)
             ELSE LET was_sustained == metric_name \in previous_sustained
                      counters1 == Put(counters, metric_name,
                                       ResetCounter(counters[metric_name]))
                  IN  IF was_sustained /\ has_notifier
                         /\ Has(last_metric_values, metric_name)
                      THEN LET n1 == update_metric_state(n, metric_name, FALSE)
                               r == send_recovery_notification(n1, metric_name,
                                        last_metric_values[metric_name], now,
                                        transport_ok, rate_limit_per_hour,
                                        enable_recovery)
                           IN  ResetNormal(Tail(names), anomaly_metric_names,
                                           previous_sustained, counters1, r.n,
                                           out \o r.out)
                      ELSE ResetNormal(Tail(names), anomaly_metric_names,
                                       previous_sustained, counters1, n, out)

\* lines 342-346 with the loop running over every metric that has a counter
MarkEveryCounted(names, n) ==
    [n EXCEPT !.states =
        [m \in (DOMAIN n.states) \cup (DOMAIN anomaly_counters)
                 \cup {names[i] : i \in 1 .. Len(names)} |-> TRUE]]

\* lines 342-346: notifier told about every sustained metric
RECURSIVE MarkSustained(_, _)
MarkSustained(names, n) ==
    IF names = << >> THEN n
    ELSE MarkSustained(Tail(names), update_metric_state(n, Head(names), TRUE))

\* lines 363-368: one send_anomaly_alert per sustained anomaly
RECURSIVE SendAlerts(_, _, _)
SendAlerts(anoms, n, out) ==
    IF anoms = << >> THEN [n |-> n, out |-> out]
    ELSE LET r == send_anomaly_alert(n, Head(anoms), now, transport_ok,
                                     rate_limit_per_hour)
         IN  SendAlerts(Tail(anoms), r.n, out \o r.out)


\* the metric names of a list of anomaly entries
MetricNames(anoms) == {anoms[i].metric : i \in 1 .. Len(anoms)}

\* lines 325-329: the metrics whose counter has reached min_anomaly_duration
PreviousSustained(counters) ==
    {m \in DOMAIN counters : counters[m] >= min_anomaly_duration}

\* lines 342-370: notifier state marked, result built, history appended, alerts sent;
\* rn is the outcome of the recovery pass of lines 331-339
CheckNotify(metrics, cu, eu, anomaly_metric_names, sustained_anomalies, rn) ==
    LET sustained_metric_names == MetricNames(sustained_anomalies)
        n2 == IF has_notifier
              THEN MarkSustained(SetToSeq(sustained_metric_names), rn.n)
              ELSE rn.n
        res == [timestamp |-> now,
                has_anomalies |-> Len(sustained_anomalies) > 0,
                anomaly_count |-> Len(sustained_anomalies),
                anomalies |-> sustained_anomalies,
                metrics |-> metrics,
                scores |-> Scores(cu, eu)]
        sa == IF sustained_anomalies # << >> /\ has_notifier
              THEN SendAlerts(sustained_anomalies, n2, rn.out)
              ELSE [n |-> n2, out |-> rn.out]
    IN  [detectors |-> [m \in DOMAIN detectors |->
                           IF m \in DOMAIN cu THEN cu[m].det ELSE detectors[m]],
         ewma_detectors |-> [m \in DOMAIN ewma_detectors |->
                                IF m \in DOMAIN eu THEN eu[m].det ELSE ewma_detectors[m]],
         anomaly_counters |-> rn.counters,
         last_metric_values |->
             IF has_notifier
             THEN [m \in (DOMAIN last_metric_values) \cup sustained_metric_names |->
                      IF m \in sustained_metric_names THEN metrics[m]
                      ELSE last_metric_values[m]]
             ELSE last_metric_values,
         anomaly_history |->
             IF sustained_anomalies # << >>
             THEN LastN(Append(anomaly_history, res), HistoryCap)
             ELSE anomaly_history,
         n |-> sa.n,
         result |-> res,
         out |-> sa.out,
         detected |-> anomaly_metric_names]

\* lines 325-339: the recovery pass over every counter; f is the outcome of the
\* debounce loop of lines 307-323
CheckRecover(metrics, cu, eu, anomaly_metric_names, f) ==
    CheckNotify(metrics, cu, eu, anomaly_metric_names, f.sustained,
                ResetNormal(SetToSeq(DOMAIN f.counters), anomaly_metric_names,
                            PreviousSustained(f.counters), f.counters, Notifier, << >>))

\* lines 302-323: the debounce loop over the raw positives of this cycle
CheckDebounce(metrics, cu, eu, detected_anomalies) ==
    CheckRecover(metrics, cu, eu, MetricNames(detected_anomalies),
                 FilterSustained(detected_anomalies, anomaly_counters, << >>, now))

\* lines 256-300: the raw positives from the detector updates cu and eu
CheckDetect(metrics, cu, eu) ==
    CheckDebounce(metrics, cu, eu, DetectedAnomalies(metrics, cu, eu))

\* check_metrics lines 254-370 as one function of the current state and the metrics
\* dict: every field the call writes, the result it returns, and the payloads sent
Check(metrics) == CheckDetect(metrics, CumsumUpdates(metrics), EwmaUpdates(metrics))

SustainedNames(res) == MetricNames(res.anomalies)

\* what one check_metrics call does to the monitor, the notifier and the observations
CheckMetricsBody(metrics) ==
    \E c \in {Check(metrics)} :
        /\ detectors' = c.detectors
        /\ ewma_detectors' = c.ewma_detectors
        /\ anomaly_counters' = c.anomaly_counters
        /\ last_metric_values' = c.last_metric_values
        /\ anomaly_history' = c.anomaly_history
        /\ alert_timestamps' = c.n.ts
        /\ alert_states' = c.n.states
        /\ recovery_sent' = c.n.sent
        /\ result' = c.result
        /\ dispatched' = c.out
        /\ detected' = c.detected
        /\ streak' = [m \in Metrics |-> IF m \in c.detected THEN streak[m] + 1 ELSE 0]
        /\ prev_sustained' = SustainedNames(result)
        /\ pre_alarm' = [m \in Metrics |-> Get(alert_states, m, FALSE)]
        /\ pre_counters' = [m \in Metrics |-> Get(anomaly_counters, m, 0)]
        /\ last_op' = "check_metrics"
        /\ UNCHANGED << standaloneVars, min_anomaly_duration, has_notifier, configs, custom_collectors,
                        rate_limit_per_hour, enable_recovery, now, transport_ok,
                        notifierObs >>

\* DriftMonitor.reset, the statements under the lock
ResetBody ==
    /\ detectors' = [m \in DOMAIN detectors |-> CUMSUM_reset(detectors[m])]
    /\ ewma_detectors' = [m \in DOMAIN ewma_detectors |-> EWMA_reset(ewma_detectors[m])]
    /\ anomaly_history' = << >>
    /\ anomaly_counters' = EmptyDict
    /\ last_metric_values' = EmptyDict
    /\ alert_states' = IF has_notifier THEN EmptyDict ELSE alert_states
    /\ recovery_sent' = IF has_notifier THEN EmptyDict ELSE recovery_sent
    /\ streak' = [m \in Metrics |-> 0]
    /\ dispatched' = << >>
    /\ last_op' = "reset"
    /\ UNCHANGED << standaloneVars, min_anomaly_duration, has_notifier, configs, custom_collectors,
                    rate_limit_per_hour, enable_recovery, alert_timestamps, now,
                    transport_ok, result, detected, prev_sustained, pre_alarm,
                    pre_counters, collected, notifierObs >>

\* update_metric_config that also forgets the metric's consecutive-anomaly counter
ConfigBodyClearsCounter(metric_name, config) ==
    /\ UpdateMetricConfigBody(metric_name, config)
    /\ anomaly_counters' = Del(anomaly_counters, metric_name)
    /\ dispatched' = << >>
    /\ last_op' = "update_metric_config"
    /\ UNCHANGED << standaloneVars, min_anomaly_duration, has_notifier, custom_collectors,
                    anomaly_history, last_metric_values,
                    notifierVars, now, transport_ok, cycleObs, notifierObs >>

\* update_metric_config with its frame
ConfigBody(metric_name, config) ==
    /\ UpdateMetricConfigBody(metric_name, config)
    /\ dispatched' = << >>
    /\ last_op' = "update_metric_config"
    /\ UNCHANGED << standaloneVars, min_anomaly_duration, has_notifier, custom_collectors,
                    anomaly_history, anomaly_counters, last_metric_values,
                    notifierVars, now, transport_ok, cycleObs, notifierObs >>

----------------------------------------------------------------------------
\* Spec: one monitor, its operations called one after another (each holds the
\* monitor lock for its whole body)

\* no collection has been made by the monitor yet
NotCollected == [system |-> None, custom |-> EmptyDict]

NoResult == [timestamp |-> 0, has_anomalies |-> FALSE, anomaly_count |-> 0,
             anomalies |-> << >>, metrics |-> EmptyDict, scores |-> EmptyDict]

\* the value of lock while no thread holds it
Free == << "free", 0 >>

\* fields the sequential specification never touches
ThreadsIdle ==
    /\ monitoring_active = FALSE
    /\ monitor_thread = None
    /\ stop_event = FALSE
    /\ lock = Free
    /\ pc = EmptyDict
    /\ op_arg = EmptyDict

\* no detector object is used outside a monitor
NoStandalone ==
    /\ lone_detector = None
    /\ lone_updates = << >>
    /\ fresh_detector = None

ObsInit ==
    /\ last_op = "init"
    /\ result = NoResult
    /\ returned = FALSE
    /\ dispatched = << >>
    /\ detected = {}
    /\ streak = [m \in Metrics |-> 0]
    /\ prev_sustained = {}
    /\ pre_alarm = [m \in Metrics |-> FALSE]
    /\ pre_counters = [m \in Metrics |-> 0]
    /\ collected = NotCollected
    /\ alert_log = << >>
    /\ only_alerts = TRUE
    /\ steps = 0

\* DriftMonitor.__init__ (and DiscordNotifier.__init__ when a webhook is given)
Init ==
    /\ min_anomaly_duration \in 1 .. MaxMinDuration
    /\ has_notifier \in BOOLEAN
    /\ enable_recovery \in (IF has_notifier THEN BOOLEAN ELSE {TRUE})
    /\ transport_ok \in (IF has_notifier THEN BOOLEAN ELSE {TRUE})
    /\ rate_limit_per_hour = DefaultRateLimit
    /\ configs \in {[cpu_percent |-> CfgCumsumRef, net_sent_mb |-> CfgEwma]}
    /\ detectors = InitialDetectors(configs)
    /\ ewma_detectors = InitialEwmaDetectors(configs)
    /\ custom_collectors = {}
    /\ anomaly_history = << >>
    /\ anomaly_counters = EmptyDict
    /\ last_metric_values = EmptyDict
    /\ alert_timestamps = EmptyDict
    /\ alert_states = EmptyDict
    /\ recovery_sent = EmptyDict
    /\ now = 0
    /\ ThreadsIdle
    /\ ObsInit
    /\ NoStandalone

\* check_metrics(metrics)
CheckMetrics ==
    \E metrics \in SampleMaps :
        /\ steps < MaxSteps
        /\ CheckMetricsBody(metrics)
        /\ steps' = steps + 1
        /\ UNCHANGED << threadVars, collected >>

\* reset()
Reset ==
    /\ steps < MaxSteps
    /\ ResetBody
    /\ steps' = steps + 1
    /\ UNCHANGED threadVars

\* update_metric_config(metric_name, config)
UpdateMetricConfig ==
    \E metric_name \in Metrics, config \in ConfigChoices :
        /\ steps < MaxSteps
        /\ ConfigBody(metric_name, config)
        /\ steps' = steps + 1
        /\ UNCHANGED threadVars

Next ==
    \/ CheckMetrics
    \/ Reset
    \/ UpdateMetricConfig

Spec == Init /\ [][Next]_vars

----------------------------------------------------------------------------
\* SpecHistory: a monitor without notifier that runs long enough to fill anomaly_history.
\* The first cycle gets the quiet sample, the cycles up to HistoryCap - 2 the anomalous
\* one, and from then on every cycle gets either; reset() may come at any point.

SteadySample == [m \in Metrics |-> RInt(MaxSample)]
QuietSample == [m \in Metrics |-> RInt(1)]

HistorySamples ==
    IF steps = 0 THEN {QuietSample}
    ELSE IF steps < HistoryCap - 2 THEN {SteadySample}
    ELSE {SteadySample, QuietSample}

InitHistory ==
    /\ min_anomaly_duration \in 1 .. MaxMinDuration
    /\ has_notifier = FALSE
    /\ enable_recovery = TRUE
    /\ transport_ok = TRUE
    /\ rate_limit_per_hour = DefaultRateLimit
    /\ configs \in {[cpu_percent |-> CfgCumsumRef, net_sent_mb |-> c] :
                       c \in {CfgCumsumRef, CfgDisabled}}
    /\ detectors = InitialDetectors(configs)
    /\ ewma_detectors = InitialEwmaDetectors(configs)
    /\ custom_collectors = {}
    /\ anomaly_history = << >>
    /\ anomaly_counters = EmptyDict
    /\ last_metric_values = EmptyDict
    /\ alert_timestamps = EmptyDict
    /\ alert_states = EmptyDict
    /\ recovery_sent = EmptyDict
    /\ now = 0
    /\ ThreadsIdle
    /\ ObsInit
    /\ NoStandalone

\* check_metrics(metrics)
HistoryCheckMetrics ==
    \E metrics \in HistorySamples :
        /\ steps < MaxHistoryChecks
        /\ CheckMetricsBody(metrics)
        /\ steps' = steps + 1
        /\ UNCHANGED << threadVars, collected >>

\* reset()
HistoryReset ==
    /\ steps < MaxHistoryChecks
    /\ ResetBody
    /\ steps' = steps + 1
    /\ UNCHANGED threadVars

NextHistory ==
    \/ HistoryCheckMetrics
    \/ HistoryReset

SpecHistory == InitHistory /\ [][NextHistory]_vars

----------------------------------------------------------------------------
\* SpecCycle: a monitor with custom collectors whose check_metrics() is called without
\* argument, so that every cycle collects its own samples (lines 251-252). The
\* collectors are installed through the public attribute custom_collectors and
\* update_metric_config.

\* a collector call that raised
Raised == << "raised" >>

\* what a custom collector call can produce
CollectorOutcomes == SampleValues \cup {NotANumber, Raised}

\* _collect_all_metrics without the try/except around each custom collector, the failure
\* swallowed by the caller: one raising collector loses every custom sample
collect_all_metrics_unguarded(system, outcomes) ==
    IF \E c \in DOMAIN outcomes : outcomes[c] = Raised
    THEN system
    ELSE [m \in (DOMAIN system) \cup (DOMAIN outcomes) |->
             IF m \in DOMAIN outcomes THEN outcomes[m] ELSE system[m]]

\* _collect_all_metrics: the system collector's dict, then metrics[name] = collector()
\* for every custom collector that returns
collect_all_metrics(system, outcomes) ==
    [m \in (DOMAIN system) \cup {c \in DOMAIN outcomes : outcomes[c] # Raised} |->
        IF m \in DOMAIN outcomes /\ outcomes[m] # Raised THEN outcomes[m] ELSE system[m]]

\* the configs of a monitor with the custom collectors cc
CycleConfigs(cc) ==
    [m \in Metrics \cup cc |->
        IF m \in {"cpu_percent", "queue_depth"} THEN CfgCumsumRef ELSE CfgEwma]

InitCycle ==
    /\ min_anomaly_duration \in 1 .. MaxMinDuration
    /\ has_notifier \in BOOLEAN
    /\ enable_recovery = TRUE
    /\ transport_ok = TRUE
    /\ rate_limit_per_hour = DefaultRateLimit
    /\ custom_collectors \in {{"queue_depth", "error_rate"}, {"queue_depth", "cpu_percent"}}
    /\ configs = CycleConfigs(custom_collectors)
    /\ detectors = InitialDetectors(configs)
    /\ ewma_detectors = InitialEwmaDetectors(configs)
    /\ anomaly_history = << >>
    /\ anomaly_counters = EmptyDict
    /\ last_metric_values = EmptyDict
    /\ alert_timestamps = EmptyDict
    /\ alert_states = EmptyDict
    /\ recovery_sent = EmptyDict
    /\ now = 0
    /\ ThreadsIdle
    /\ ObsInit
    /\ NoStandalone

\* check_metrics(): the samples are collected, then checked
CollectAndCheck ==
    \E system \in {SteadySample, QuietSample} :
        \E outcomes \in [custom_collectors -> CollectorOutcomes] :
            /\ steps < MaxCycleChecks
            /\ CheckMetricsBody(collect_all_metrics(system, outcomes))
            /\ collected' = [system |-> Some(system), custom |-> outcomes]
            /\ steps' = steps + 1
            /\ UNCHANGED threadVars

\* check_metrics(): the system collector raises at line 230, outside every try block;
\* the exception leaves check_metrics at line 252, before the lock is taken
SystemCollectFails ==
    /\ steps < MaxCycleChecks
    /\ collected' = NotCollected
    /\ last_op' = "check_metrics_raised"
    /\ steps' = steps + 1
    /\ UNCHANGED << standaloneVars, monitorVars, notifierVars, threadVars, now, transport_ok, result,
                    returned, dispatched, detected, streak, prev_sustained, pre_alarm,
                    pre_counters, alert_log, only_alerts >>

NextCycle ==
    \/ CollectAndCheck
    \/ SystemCollectFails

SpecCycle == InitCycle /\ [][NextCycle]_vars

----------------------------------------------------------------------------
\* SpecBand: a monitor of two CUMSUM metrics that needs at least two consecutive
\* detections, its check_metrics() fed by the system collector alone. The samples
\* lie on both sides of the reference; one deviation can stay within the threshold
\* or exceed it.

\* the values the system collector reports
BandValues == {RInt(0), RInt(2), RInt(3), RInt(MaxSample)}

InitBand ==
    /\ min_anomaly_duration \in 2 .. MaxMinDuration + 1
    /\ has_notifier = TRUE
    /\ enable_recovery = TRUE
    /\ transport_ok = TRUE
    /\ rate_limit_per_hour = DefaultRateLimit
    /\ custom_collectors = {}
    /\ configs = [cpu_percent |-> CfgCumsumRef, net_sent_mb |-> CfgCumsumNoRef]
    /\ detectors = InitialDetectors(configs)
    /\ ewma_detectors = InitialEwmaDetectors(configs)
    /\ anomaly_history = << >>
    /\ anomaly_counters = EmptyDict
    /\ last_metric_values = EmptyDict
    /\ alert_timestamps = EmptyDict
    /\ alert_states = EmptyDict
    /\ recovery_sent = EmptyDict
    /\ now = 0
    /\ ThreadsIdle
    /\ ObsInit
    /\ NoStandalone

\* check_metrics(): the samples are collected from the system collector, then checked
BandCheck ==
    \E system \in [Metrics -> BandValues] :
        /\ steps < MaxBandChecks
        /\ CheckMetricsBody(collect_all_metrics(system, EmptyDict))
        /\ collected' = [system |-> Some(system), custom |-> EmptyDict]
        /\ steps' = steps + 1
        /\ UNCHANGED threadVars

NextBand == BandCheck

SpecBand == InitBand /\ [][NextBand]_vars

----------------------------------------------------------------------------
\* SpecNotifier: a DiscordNotifier built on its own and called directly, with the
\* clock advancing and the transport going down and up between calls

TimeStep == Hour \div 2

\* an anomaly dict as check_metrics (or a test) passes it to send_anomaly_alert
AnomalyFor(m) ==
    [metric |-> m, value |-> RInt(MaxSample), score |-> RInt(MaxSample),
     algorithm |-> "CUMSUM", severity |-> "medium", duration |-> 1, timestamp |-> now]

\* no DriftMonitor exists in this specification
NoMonitor ==
    /\ min_anomaly_duration = 1
    /\ has_notifier = TRUE
    /\ configs = EmptyDict
    /\ detectors = EmptyDict
    /\ ewma_detectors = EmptyDict
    /\ custom_collectors = {}
    /\ anomaly_history = << >>
    /\ anomaly_counters = EmptyDict
    /\ last_metric_values = EmptyDict

\* DiscordNotifier.__init__
InitNotifier ==
    /\ rate_limit_per_hour \in 1 .. MaxRateLimit
    /\ enable_recovery \in BOOLEAN
    /\ alert_timestamps = EmptyDict
    /\ alert_states = EmptyDict
    /\ recovery_sent = EmptyDict
    /\ now = 0
    /\ transport_ok = TRUE
    /\ NoMonitor
    /\ ThreadsIdle
    /\ ObsInit
    /\ NoStandalone

NotifierFrame ==
    UNCHANGED << standaloneVars, monitorVars, threadVars, rate_limit_per_hour, enable_recovery, now,
                 transport_ok, cycleObs >>

\* notifier.send_anomaly_alert(anomaly)
SendAnomalyAlert ==
    \E m \in Metrics :
        LET r == send_anomaly_alert(Notifier, AnomalyFor(m), now, transport_ok,
                                    rate_limit_per_hour)
        IN  /\ steps < MaxCalls
            /\ alert_timestamps' = r.n.ts
            /\ alert_states' = r.n.states
            /\ recovery_sent' = r.n.sent
            /\ returned' = r.ret
            /\ dispatched' = r.out
            /\ alert_log' = Append(alert_log, [kind |-> "alert", metric |-> m, t |-> now,
                                                ret |-> r.ret])
            /\ only_alerts' = (only_alerts /\ transport_ok)
            /\ last_op' = "send_anomaly_alert"
            /\ steps' = steps + 1
            /\ NotifierFrame

\* notifier.send_recovery_notification(metric_name, previous_value)
SendRecoveryNotification ==
    \E m \in Metrics :
        LET r == send_recovery_notification(Notifier, m, RInt(MaxSample), now, transport_ok,
                                            rate_limit_per_hour, enable_recovery)
        IN  /\ steps < MaxCalls
            /\ alert_timestamps' = r.n.ts
            /\ alert_states' = r.n.states
            /\ recovery_sent' = r.n.sent
            /\ returned' = r.ret
            /\ dispatched' = r.out
            /\ alert_log' = Append(alert_log, [kind |-> "recovery", metric |-> m, t |-> now,
                                                ret |-> r.ret])
            /\ only_alerts' = FALSE
            /\ last_op' = "send_recovery_notification"
            /\ steps' = steps + 1
            /\ NotifierFrame

\* notifier.update_metric_state(metric_name, is_anomaly)
UpdateMetricState ==
    \E m \in Metrics, is_anomaly \in BOOLEAN :
        LET n == update_metric_state(Notifier, m, is_anomaly)
        IN  /\ steps < MaxCalls
            /\ alert_timestamps' = n.ts
            /\ alert_states' = n.states
            /\ recovery_sent' = n.sent
            /\ dispatched' = << >>
            /\ only_alerts' = FALSE
            /\ last_op' = "update_metric_state"
            /\ steps' = steps + 1
            /\ UNCHANGED << returned, alert_log >>
            /\ NotifierFrame

\* time passes between calls
Tick ==
    /\ now + TimeStep <= MaxTicks * Hour
    /\ now' = now + TimeStep
    /\ UNCHANGED << standaloneVars, monitorVars, notifierVars, threadVars, transport_ok, last_op, result,
                    returned, dispatched, detected, streak, prev_sustained, pre_alarm,
                    pre_counters, collected, alert_log, only_alerts, steps >>

\* the webhook endpoint goes down or comes back
TransportChange ==
    /\ transport_ok' = ~transport_ok
    /\ UNCHANGED << standaloneVars, monitorVars, notifierVars, threadVars, now, last_op, result,
                    returned, dispatched, detected, streak, prev_sustained, pre_alarm,
                    pre_counters, collected, alert_log, only_alerts, steps >>

NextNotifier ==
    \/ SendAnomalyAlert
    \/ SendRecoveryNotification
    \/ UpdateMetricState
    \/ Tick
    \/ TransportChange

SpecNotifier == InitNotifier /\ [][NextNotifier]_vars

----------------------------------------------------------------------------
\* SpecGateway: a monitor built with or without a webhook; its notifier, if it has one
\* (the public attribute monitor.notifier, rate_limit_per_hour left at its default), is
\* also called directly by the application between check_metrics calls

InitGateway ==
    /\ min_anomaly_duration \in 1 .. MaxMinDuration
    /\ has_notifier \in BOOLEAN
    /\ enable_recovery = TRUE
    /\ transport_ok \in (IF has_notifier THEN BOOLEAN ELSE {TRUE})
    /\ rate_limit_per_hour = DefaultRateLimit
    /\ configs = [cpu_percent |-> CfgCumsumRef, net_sent_mb |-> CfgEwma]
    /\ detectors = InitialDetectors(configs)
    /\ ewma_detectors = InitialEwmaDetectors(configs)
    /\ custom_collectors = {}
    /\ anomaly_history = << >>
    /\ anomaly_counters = EmptyDict
    /\ last_metric_values = EmptyDict
    /\ alert_timestamps = EmptyDict
    /\ alert_states = EmptyDict
    /\ recovery_sent = EmptyDict
    /\ now = 0
    /\ ThreadsIdle
    /\ ObsInit
    /\ NoStandalone

\* monitor.check_metrics(metrics)
GatewayCheckMetrics ==
    \E metrics \in SampleMaps :
        /\ steps < MaxGatewayChecks
        /\ CheckMetricsBody(metrics)
        /\ steps' = steps + 1
        /\ UNCHANGED << threadVars, collected >>

\* monitor.notifier.send_anomaly_alert(anomaly)
DirectAlert ==
    \E m \in Metrics :
        \E r \in {send_anomaly_alert(Notifier, AnomalyFor(m), now, transport_ok,
                                     rate_limit_per_hour)} :
            /\ has_notifier
            /\ alert_timestamps' = r.n.ts
            /\ alert_states' = r.n.states
            /\ recovery_sent' = r.n.sent
            /\ returned' = r.ret
            /\ dispatched' = r.out
            /\ last_op' = "send_anomaly_alert"
            /\ UNCHANGED << standaloneVars, monitorVars, threadVars, rate_limit_per_hour, enable_recovery,
                            now, transport_ok, cycleObs, alert_log, only_alerts, steps >>

\* monitor.notifier.send_recovery_notification(metric_name, previous_value)
DirectRecovery ==
    \E m \in Metrics :
        \E r \in {send_recovery_notification(Notifier, m, RInt(MaxSample), now,
                                             transport_ok, rate_limit_per_hour,
                                             enable_recovery)} :
            /\ has_notifier
            /\ alert_timestamps' = r.n.ts
            /\ alert_states' = r.n.states
            /\ recovery_sent' = r.n.sent
            /\ returned' = r.ret
            /\ dispatched' = r.out
            /\ last_op' = "send_recovery_notification"
            /\ UNCHANGED << standaloneVars, monitorVars, threadVars, rate_limit_per_hour, enable_recovery,
                            now, transport_ok, cycleObs, alert_log, only_alerts, steps >>

NextGateway ==
    \/ GatewayCheckMetrics
    \/ DirectAlert
    \/ DirectRecovery

SpecGateway == InitGateway /\ [][NextGateway]_vars

----------------------------------------------------------------------------
\* SpecAdmin: a monitor with a notifier that is reconfigured and reset between
\* check_metrics calls, and whose notifier is also called directly by the application

InitAdmin ==
    /\ min_anomaly_duration \in 1 .. MaxMinDuration
    /\ has_notifier = TRUE
    /\ enable_recovery = TRUE
    /\ transport_ok = TRUE
    /\ rate_limit_per_hour = DefaultRateLimit
    /\ configs \in {[cpu_percent |-> CfgCumsumRef, net_sent_mb |-> CfgEwma],
                    [cpu_percent |-> CfgCumsumRef, net_sent_mb |-> CfgDisabled]}
    /\ detectors = InitialDetectors(configs)
    /\ ewma_detectors = InitialEwmaDetectors(configs)
    /\ custom_collectors = {}
    /\ anomaly_history = << >>
    /\ anomaly_counters = EmptyDict
    /\ last_metric_values = EmptyDict
    /\ alert_timestamps = EmptyDict
    /\ alert_states = EmptyDict
    /\ recovery_sent = EmptyDict
    /\ now = 0
    /\ ThreadsIdle
    /\ ObsInit
    /\ NoStandalone

\* monitor.check_metrics(metrics)
AdminCheckMetrics ==
    \E metrics \in SampleMaps :
        /\ steps < MaxAdminOps
        /\ CheckMetricsBody(metrics)
        /\ steps' = steps + 1
        /\ UNCHANGED << threadVars, collected >>

\* monitor.update_metric_config(metric_name, config), called by the application's
\* main thread; op_arg keeps the arguments of the call
AdminUpdateMetricConfig ==
    \E metric_name \in Metrics, config \in AdminConfigs :
        /\ steps < MaxAdminOps
        /\ ConfigBody(metric_name, config)
        /\ op_arg' = [main |-> [op |-> "update_metric_config", name |-> metric_name,
                               config |-> config, kw |-> None]]
        /\ steps' = steps + 1
        /\ UNCHANGED << monitoring_active, monitor_thread, stop_event, lock, pc >>

\* monitor.reset()
AdminReset ==
    /\ steps < MaxAdminOps
    /\ ResetBody
    /\ steps' = steps + 1
    /\ UNCHANGED threadVars

\* monitor.notifier.send_anomaly_alert(anomaly)
AdminAlert ==
    \E m \in Metrics :
        \E r \in {send_anomaly_alert(Notifier, AnomalyFor(m), now, transport_ok,
                                     rate_limit_per_hour)} :
            /\ steps < MaxAdminOps
            /\ alert_timestamps' = r.n.ts
            /\ alert_states' = r.n.states
            /\ recovery_sent' = r.n.sent
            /\ returned' = r.ret
            /\ dispatched' = r.out
            /\ last_op' = "send_anomaly_alert"
            /\ steps' = steps + 1
            /\ UNCHANGED << standaloneVars, monitorVars, threadVars, rate_limit_per_hour, enable_recovery,
                            now, transport_ok, cycleObs, alert_log, only_alerts >>

NextAdmin ==
    \/ AdminCheckMetrics
    \/ AdminUpdateMetricConfig
    \/ AdminReset
    \/ AdminAlert

SpecAdmin == InitAdmin /\ [][NextAdmin]_vars

----------------------------------------------------------------------------
\* SpecDetector: one detector object of drift.algorithms used on its own: built by
\* its constructor, then given set_reference (CUMSUM), update and reset calls.
\* lone_updates keeps, for every update since the object was built, reset or given a
\* reference, the value, the object before and after the call and what was returned.
\* When the object is reset a twin with the same parameters is built anew, and
\* from then on it is given the same calls.

IsCumsum(det) == "cumsum_pos" \in DOMAIN det

\* detector.update(value) and detector.reset() of either class
Update(det, value) ==
    IF IsCumsum(det) THEN CUMSUM_update(det, value) ELSE EWMA_update(det, value)
ResetOf(det) == IF IsCumsum(det) THEN CUMSUM_reset(det) ELSE EWMA_reset(det)
\* the constructor call that gives an object with the parameters of det
Rebuilt(det) ==
    IF IsCumsum(det) THEN CUMSUM(det.threshold, det.drift)
    ELSE EWMA(det.alpha, det.threshold_sigma)

\* the values fed to the object, and the parameters it is built with
Values == {RInt(0), RInt(1), RInt(2), RInt(3), RInt(MaxValue)}
References == {RInt(0), RInt(1)}
BuiltDetectors ==
    {CUMSUM(RInt(2), RInt(1)), CUMSUM(RInt(2), Rat(1, 2)), EWMA(Rat(1, 2), Rat(1, 2)),
     EWMA(ROne, Rat(1, 2))}

\* the log entry of one update call
UpdateEntry(det, value) ==
    [value |-> value, before |-> det, after |-> Update(det, value).det,
     is_anomaly |-> Update(det, value).is_anomaly, score |-> Update(det, value).score]

\* the monitor fields and the observations of its cycles, which the object stands apart from
NoMonitorHere ==
    /\ min_anomaly_duration = 1
    /\ has_notifier = FALSE
    /\ enable_recovery = TRUE
    /\ transport_ok = TRUE
    /\ rate_limit_per_hour = DefaultRateLimit
    /\ configs = EmptyDict
    /\ detectors = EmptyDict
    /\ ewma_detectors = EmptyDict
    /\ custom_collectors = {}
    /\ anomaly_history = << >>
    /\ anomaly_counters = EmptyDict
    /\ last_metric_values = EmptyDict
    /\ alert_timestamps = EmptyDict
    /\ alert_states = EmptyDict
    /\ recovery_sent = EmptyDict
    /\ now = 0
    /\ ThreadsIdle
    /\ ObsInit

detectorFrame == << monitorVars, notifierVars, threadVars, now, transport_ok, result,
                    returned, dispatched, cycleObs, alert_log, only_alerts >>

\* detector = CUMSUM(threshold, drift) or EWMA(alpha, threshold_sigma)
InitDetector ==
    /\ NoMonitorHere
    /\ lone_detector \in BuiltDetectors
    /\ lone_updates = << >>
    /\ fresh_detector = None

\* detector.update(value)
DetectorUpdate ==
    \E value \in Values :
        /\ steps < MaxDetectorOps
        /\ lone_detector' = Update(lone_detector, value).det
        /\ lone_updates' = Append(lone_updates, UpdateEntry(lone_detector, value))
        /\ fresh_detector' =
               IF IsNone(fresh_detector) THEN None
               ELSE Some([det |-> Update(The(fresh_detector).det, value).det,
                          updates |-> Append(The(fresh_detector).updates,
                                             UpdateEntry(The(fresh_detector).det, value))])
        /\ last_op' = "update"
        /\ steps' = steps + 1
        /\ UNCHANGED detectorFrame

\* detector.set_reference(mean)
DetectorSetReference ==
    \E mean \in References :
        /\ steps < MaxDetectorOps
        /\ IsCumsum(lone_detector)
        /\ lone_detector' = set_reference(lone_detector, mean)
        /\ lone_updates' = << >>
        /\ fresh_detector' =
               IF IsNone(fresh_detector) THEN None
               ELSE Some([det |-> set_reference(The(fresh_detector).det, mean),
                          updates |-> << >>])
        /\ last_op' = "set_reference"
        /\ steps' = steps + 1
        /\ UNCHANGED detectorFrame

\* detector.reset()
DetectorReset ==
    /\ steps < MaxDetectorOps
    /\ lone_detector' = ResetOf(lone_detector)
    /\ lone_updates' = << >>
    /\ fresh_detector' = Some([det |-> Rebuilt(lone_detector), updates |-> << >>])
    /\ last_op' = "reset"
    /\ steps' = steps + 1
    /\ UNCHANGED detectorFrame

NextDetector ==
    \/ DetectorUpdate
    \/ DetectorSetReference
    \/ DetectorReset

SpecDetector == InitDetector /\ [][NextDetector]_vars

----------------------------------------------------------------------------
\* SpecThreads: caller threads invoking the public methods concurrently and the
\* worker threads start() creates, interleaved statement by statement where the
\* code reads or writes outside the lock, and block by block under the lock

Callers == {<< "caller", 1 >>, << "caller", 2 >>}
Workers == {<< "worker", i >> : i \in 1 .. MaxWorkers}
Threads == Callers \cup Workers

\* threading.Lock.acquire succeeds only on an unlocked lock, whoever holds it
CanAcquireAnyway(t) == TRUE
CanAcquire(t) == lock = Free

\* the keyword arguments of a configure_metric call
KwChoices ==
    {[algorithm |-> "CUMSUM", threshold |-> Some(Rat(3, 1)), drift |-> None,
      reference_mean |-> None, alpha |-> None, threshold_sigma |-> None,
      enabled |-> TRUE]}

\* Python's `x or default` on an optional number
OrDefault(opt, default) ==
    IF IsNone(opt) \/ The(opt) = RZero THEN default ELSE The(opt)
\* Python's `x if x is not None else y`
IfGiven(opt, other) == IF IsNone(opt) THEN other ELSE The(opt)

\* configure_metric lines 133-155: the MetricConfig built from the keyword arguments
ConfigureMetricConfig(metric_name, kw) ==
    IF Has(configs, metric_name)
    THEN LET existing_config == configs[metric_name]
         IN  MetricConfig(kw.algorithm,
                          IfGiven(kw.threshold, existing_config.threshold),
                          IfGiven(kw.drift, existing_config.drift),
                          IF IsNone(kw.reference_mean)
                          THEN existing_config.reference_mean
                          ELSE kw.reference_mean,
                          IfGiven(kw.alpha, existing_config.alpha),
                          IfGiven(kw.threshold_sigma, existing_config.threshold_sigma),
                          kw.enabled)
    ELSE MetricConfig(kw.algorithm,
                      OrDefault(kw.threshold, Rat(5, 1)),
                      OrDefault(kw.drift, Rat(1, 2)),
                      kw.reference_mean,
                      OrDefault(kw.alpha, Rat(3, 10)),
                      OrDefault(kw.threshold_sigma, Rat(3, 1)),
                      kw.enabled)

\* the metrics dicts collected while threads run: all high, all low, and one with a
\* sample that is not a number (the update of that metric's detector raises)
ThreadSampleMaps ==
    {[m \in Metrics |-> RInt(MaxSample)], [m \in Metrics |-> RInt(1)],
     [m \in Metrics |-> IF m = "cpu_percent" THEN NotANumber ELSE RInt(MaxSample)]}

\* the calls a caller thread can make, each with its first control point
FirstPc ==
    [start |-> "start_test", stop |-> "stop_test", check_metrics |-> "cm_collect",
     reset |-> "reset_lock", update_metric_config |-> "umc_lock",
     configure_metric |-> "cfg_lock", register_custom_metric |-> "reg_lock",
     get_config |-> "gc_lock"]
OpNames == DOMAIN FirstPc

\* the arguments a call of op can be given
ArgsOf(op) ==
    IF op = "update_metric_config"
    THEN {[op |-> op, name |-> "cpu_percent", config |-> CfgCumsumNoRef, kw |-> None]}
    ELSE IF op = "configure_metric"
    THEN {[op |-> op, name |-> "cpu_percent", config |-> None, kw |-> Some(k)] :
             k \in KwChoices}
    ELSE IF op = "register_custom_metric"
    THEN {[op |-> op, name |-> "queue_depth", config |-> CfgEwma, kw |-> None]}
    ELSE IF op = "get_config"
    THEN {[op |-> op, name |-> "cpu_percent", config |-> None, kw |-> None]}
    ELSE {[op |-> op, name |-> "", config |-> None, kw |-> None]}

NoCall == [op |-> "", name |-> "", config |-> None, kw |-> None]

\* worker threads that are running _monitoring_loop
LoopPcs == {"loop_test", "w_collect", "w_publish_metrics", "cm_lock", "cm_body",
            "w_publish_result", "w_wait"}
Running == {w \in Workers : pc[w] \in LoopPcs}
\* control points of a worker in the middle of a cycle (lines 379-388)
MidCyclePcs == {"w_collect", "w_publish_metrics", "cm_lock", "cm_body",
                "w_publish_result"}
Unborn == {w \in Workers : pc[w] = "unborn"}
Starting == {t \in Callers : op_arg[t].op = "start"}

InitThreads ==
    /\ min_anomaly_duration = 1
    /\ has_notifier = TRUE
    /\ enable_recovery = TRUE
    /\ transport_ok = TRUE
    /\ rate_limit_per_hour = DefaultRateLimit
    /\ configs = [cpu_percent |-> CfgCumsumRef, net_sent_mb |-> CfgEwma]
    /\ detectors = InitialDetectors(configs)
    /\ ewma_detectors = InitialEwmaDetectors(configs)
    /\ custom_collectors = {}
    /\ anomaly_history = << >>
    /\ anomaly_counters = EmptyDict
    /\ last_metric_values = EmptyDict
    /\ alert_timestamps = EmptyDict
    /\ alert_states = EmptyDict
    /\ recovery_sent = EmptyDict
    /\ now = 0
    /\ monitoring_active = FALSE
    /\ monitor_thread = None
    /\ stop_event = FALSE
    /\ lock = Free
    /\ pc = [t \in Threads |-> IF t \in Callers THEN "idle" ELSE "unborn"]
    /\ op_arg = [t \in Callers |-> NoCall]
    /\ ObsInit
    /\ NoStandalone

dataVars == << standaloneVars, min_anomaly_duration, has_notifier, configs, detectors, ewma_detectors,
               custom_collectors, anomaly_history, anomaly_counters, last_metric_values,
               notifierVars, now, transport_ok, last_op, result, returned, dispatched,
               detected, streak, prev_sustained, pre_alarm, pre_counters, collected,
               alert_log,
               only_alerts >>

Goto(t, label) == pc' = [pc EXCEPT ![t] = label]
Return(t) ==
    /\ pc' = [pc EXCEPT ![t] = "idle"]
    /\ op_arg' = [op_arg EXCEPT ![t] = NoCall]

\* a caller thread calls one of the public methods
BeginCall(t) ==
    \E op \in OpNames : \E a \in ArgsOf(op) :
        /\ pc[t] = "idle"
        /\ steps < MaxOps
        /\ op = "start" => Cardinality(Unborn) > Cardinality(Starting)
        /\ Goto(t, FirstPc[op])
        /\ op_arg' = [op_arg EXCEPT ![t] = a]
        /\ steps' = steps + 1
        /\ UNCHANGED << dataVars, monitoring_active, monitor_thread, stop_event, lock >>

\* start, line 411: if self.monitoring_active: return
StartTest(t) ==
    /\ pc[t] = "start_test"
    /\ IF monitoring_active THEN Return(t)
       ELSE Goto(t, "start_lock") /\ UNCHANGED op_arg
    /\ UNCHANGED << dataVars, monitoring_active, monitor_thread, stop_event, lock, steps >>

\* start, line 415: with self.lock
StartAcquire(t) ==
    /\ pc[t] = "start_lock"
    /\ CanAcquire(t)
    /\ lock' = t
    /\ Goto(t, "start_set_active")
    /\ UNCHANGED << dataVars, monitoring_active, monitor_thread, stop_event, op_arg, steps >>

\* start, line 416
StartSetActive(t) ==
    /\ pc[t] = "start_set_active"
    /\ monitoring_active' = TRUE
    /\ Goto(t, "start_clear")
    /\ UNCHANGED << dataVars, monitor_thread, stop_event, lock, op_arg, steps >>

\* start, line 417
StartClearEvent(t) ==
    /\ pc[t] = "start_clear"
    /\ stop_event' = FALSE
    /\ Goto(t, "start_spawn")
    /\ UNCHANGED << dataVars, monitoring_active, monitor_thread, lock, op_arg, steps >>

\* start, lines 418-419 and the end of the with block
StartSpawn(t) ==
    /\ pc[t] = "start_spawn"
    /\ Unborn # {}
    /\ LET w == CHOOSE x \in Unborn : \A y \in Unborn : x[2] <= y[2]
       IN  /\ monitor_thread' = Some(w)
           /\ pc' = [pc EXCEPT ![w] = "loop_test", ![t] = "idle"]
    /\ op_arg' = [op_arg EXCEPT ![t] = NoCall]
    /\ lock' = Free
    /\ UNCHANGED << dataVars, monitoring_active, stop_event, steps >>

\* stop, line 423: if not self.monitoring_active: return
StopTest(t) ==
    /\ pc[t] = "stop_test"
    /\ IF ~monitoring_active THEN Return(t)
       ELSE Goto(t, "stop_lock") /\ UNCHANGED op_arg
    /\ UNCHANGED << dataVars, monitoring_active, monitor_thread, stop_event, lock, steps >>

\* stop, line 426: with self.lock
StopAcquire(t) ==
    /\ pc[t] = "stop_lock"
    /\ CanAcquire(t)
    /\ lock' = t
    /\ Goto(t, "stop_clear_active")
    /\ UNCHANGED << dataVars, monitoring_active, monitor_thread, stop_event, op_arg, steps >>

\* stop, line 427
StopClearActive(t) ==
    /\ pc[t] = "stop_clear_active"
    /\ monitoring_active' = FALSE
    /\ Goto(t, "stop_set")
    /\ UNCHANGED << dataVars, monitor_thread, stop_event, lock, op_arg, steps >>

\* stop, line 428 and the end of the with block
StopSetEvent(t) ==
    /\ pc[t] = "stop_set"
    /\ stop_event' = TRUE
    /\ lock' = Free
    /\ Goto(t, "stop_join")
    /\ UNCHANGED << dataVars, monitoring_active, monitor_thread, op_arg, steps >>

\* stop without the join of lines 430-431
StopNoJoin(t) ==
    /\ pc[t] = "stop_join"
    /\ Return(t)
    /\ UNCHANGED << dataVars, monitoring_active, monitor_thread, stop_event, lock, steps >>

\* stop, lines 430-431: no thread to join, or join returns because the thread ended
StopJoinDone(t) ==
    /\ pc[t] = "stop_join"
    /\ IsNone(monitor_thread) \/ pc[The(monitor_thread)] = "exited"
    /\ Return(t)
    /\ UNCHANGED << dataVars, monitoring_active, monitor_thread, stop_event, lock, steps >>

\* stop, line 431: join(timeout=5.0) gives up while the worker is still inside a cycle
\* (a collector, the transport or the lock keeps it longer than the timeout), or while
\* it keeps looping because a start() has cleared the stop event again
StopJoinTimeout(t) ==
    /\ pc[t] = "stop_join"
    /\ ~IsNone(monitor_thread)
    /\ \/ pc[The(monitor_thread)] \in MidCyclePcs
       \/ pc[The(monitor_thread)] \in LoopPcs /\ ~stop_event
    /\ Return(t)
    /\ UNCHANGED << dataVars, monitoring_active, monitor_thread, stop_event, lock, steps >>

\* check_metrics, lines 251-252: metrics collected before the lock is taken
CheckCollect(t) ==
    /\ pc[t] = "cm_collect"
    /\ Goto(t, "cm_lock")
    /\ UNCHANGED << dataVars, monitoring_active, monitor_thread, stop_event, lock,
                    op_arg, steps >>

\* check_metrics, line 252: _collect_all_metrics raises (the system collector, line 230),
\* and the exception goes to the caller
CheckCollectFails(t) ==
    /\ pc[t] = "cm_collect"
    /\ Return(t)
    /\ UNCHANGED << dataVars, monitoring_active, monitor_thread, stop_event, lock, steps >>

\* check_metrics, line 254: with self.lock (caller or worker)
CheckAcquire(t) ==
    /\ pc[t] = "cm_lock"
    /\ CanAcquire(t)
    /\ lock' = t
    /\ Goto(t, "cm_body")
    /\ UNCHANGED << dataVars, monitoring_active, monitor_thread, stop_event, op_arg, steps >>

\* check_metrics, lines 255-370 and the end of the with block
CheckExit(t) ==
    \E metrics \in ThreadSampleMaps :
        /\ pc[t] = "cm_body"
        /\ CheckMetricsBody(metrics)
        /\ lock' = Free
        /\ pc' = [pc EXCEPT ![t] = IF t \in Workers THEN "w_publish_result" ELSE "idle"]
        /\ op_arg' = [x \in DOMAIN op_arg |-> IF x = t THEN NoCall ELSE op_arg[x]]
        /\ UNCHANGED << monitoring_active, monitor_thread, stop_event, steps, collected >>

\* reset, line 445: with self.lock
ResetAcquire(t) ==
    /\ pc[t] = "reset_lock"
    /\ CanAcquire(t)
    /\ lock' = t
    /\ Goto(t, "reset_body")
    /\ UNCHANGED << dataVars, monitoring_active, monitor_thread, stop_event, op_arg, steps >>

\* reset, lines 446-456 and the end of the with block
ResetExit(t) ==
    /\ pc[t] = "reset_body"
    /\ ResetBody
    /\ lock' = Free
    /\ Return(t)
    /\ UNCHANGED << monitoring_active, monitor_thread, stop_event, steps >>

\* update_metric_config, line 167: with self.lock; also reached from configure_metric
\* (line 157) and register_custom_metric (line 204), which hold the lock already
UmcAcquire(t) ==
    /\ pc[t] = "umc_lock"
    /\ CanAcquire(t)
    /\ lock' = t
    /\ Goto(t, "umc_body")
    /\ UNCHANGED << dataVars, monitoring_active, monitor_thread, stop_event, op_arg, steps >>

\* update_metric_config, lines 168-186 and the end of the with block
UmcExit(t) ==
    /\ pc[t] = "umc_body"
    /\ ConfigBody(op_arg[t].name, op_arg[t].config)
    /\ lock' = Free
    /\ Return(t)
    /\ UNCHANGED << monitoring_active, monitor_thread, stop_event, steps >>

\* configure_metric, line 131: with self.lock
CfgAcquire(t) ==
    /\ pc[t] = "cfg_lock"
    /\ CanAcquire(t)
    /\ lock' = t
    /\ Goto(t, "cfg_build")
    /\ UNCHANGED << dataVars, monitoring_active, monitor_thread, stop_event, op_arg, steps >>

\* configure_metric, lines 133-157: build the config, call update_metric_config
CfgCallUpdate(t) ==
    /\ pc[t] = "cfg_build"
    /\ op_arg' = [op_arg EXCEPT ![t].config =
                     ConfigureMetricConfig(op_arg[t].name, The(op_arg[t].kw))]
    /\ Goto(t, "umc_lock")
    /\ UNCHANGED << dataVars, monitoring_active, monitor_thread, stop_event, lock, steps >>

----------------------------------------------------------------------------
\* SpecConfigure: configure_metric called on monitors with different configs, for a
\* metric that has a config and for one that has none. The call takes the lock,
\* builds its MetricConfig and then waits for the lock in update_metric_config.

\* the keyword arguments a caller of configure_metric writes; None: not written
CallChoices ==
    [algorithm : {None, Some("EWMA")},
     threshold : {None, Some(RZero), Some(Rat(3, 1))},
     drift : {None, Some(RZero)},
     reference_mean : {None, Some(RZero)},
     alpha : {None, Some(Rat(1, 2))},
     threshold_sigma : {None, Some(RZero)},
     enabled : {None, Some(FALSE)}]

\* the parameter defaults of the signature (lines 107-117) applied to a call
BindConfigureMetric(call) ==
    [algorithm |-> IfGiven(call.algorithm, "CUMSUM"),
     threshold |-> call.threshold, drift |-> call.drift,
     reference_mean |-> call.reference_mean, alpha |-> call.alpha,
     threshold_sigma |-> call.threshold_sigma,
     enabled |-> IfGiven(call.enabled, TRUE)]

InitConfigure ==
    /\ min_anomaly_duration = 1
    /\ has_notifier = FALSE
    /\ enable_recovery = TRUE
    /\ transport_ok = TRUE
    /\ rate_limit_per_hour = DefaultRateLimit
    /\ configs \in {[cpu_percent |-> c, net_sent_mb |-> CfgEwma] :
                       c \in {CfgCumsumRef, CfgCumsumNoRef, CfgEwma, CfgDisabled}}
    /\ detectors = InitialDetectors(configs)
    /\ ewma_detectors = InitialEwmaDetectors(configs)
    /\ custom_collectors = {}
    /\ anomaly_history = << >>
    /\ anomaly_counters = EmptyDict
    /\ last_metric_values = EmptyDict
    /\ alert_timestamps = EmptyDict
    /\ alert_states = EmptyDict
    /\ recovery_sent = EmptyDict
    /\ now = 0
    /\ monitoring_active = FALSE
    /\ monitor_thread = None
    /\ stop_event = FALSE
    /\ lock = Free
    /\ pc = [t \in Threads |-> IF t \in Callers THEN "idle" ELSE "unborn"]
    /\ op_arg = [t \in Callers |-> NoCall]
    /\ ObsInit
    /\ NoStandalone

\* a thread calls configure_metric(metric_name, **call)
ConfigureBegin(t) ==
    \E metric_name \in {"cpu_percent", "queue_depth"}, call \in CallChoices :
        /\ \A u \in Callers : pc[u] = "idle"    \* one call is followed at a time
        /\ Goto(t, FirstPc["configure_metric"])
        /\ op_arg' = [op_arg EXCEPT ![t] =
                         [op |-> "configure_metric", name |-> metric_name, config |-> None,
                          kw |-> Some(BindConfigureMetric(call)), given |-> call]]
        /\ steps' = steps + 1
        /\ UNCHANGED << dataVars, monitoring_active, monitor_thread, stop_event, lock >>

NextConfigure ==
    \E t \in Callers :
        \/ ConfigureBegin(t)
        \/ CfgAcquire(t)
        \/ CfgCallUpdate(t)

SpecConfigure == InitConfigure /\ [][NextConfigure]_vars

\* register_custom_metric, line 202: with self.lock
RegAcquire(t) ==
    /\ pc[t] = "reg_lock"
    /\ CanAcquire(t)
    /\ lock' = t
    /\ Goto(t, "reg_body")
    /\ UNCHANGED << dataVars, monitoring_active, monitor_thread, stop_event, op_arg, steps >>

\* register_custom_metric, lines 203-204: store the collector, call update_metric_config
RegCallUpdate(t) ==
    /\ pc[t] = "reg_body"
    /\ custom_collectors' = custom_collectors \cup {op_arg[t].name}
    /\ Goto(t, "umc_lock")
    /\ UNCHANGED << standaloneVars, min_anomaly_duration, has_notifier, configs, detectors,
                    ewma_detectors, anomaly_history, anomaly_counters,
                    last_metric_values, notifierVars, now, transport_ok, last_op,
                    result, returned, dispatched, cycleObs, alert_log, only_alerts,
                    monitoring_active, monitor_thread, stop_event, lock, op_arg, steps >>

\* get_config, lines 208-209
GetConfig(t) ==
    /\ pc[t] = "gc_lock"
    /\ CanAcquire(t)
    /\ Return(t)
    /\ last_op' = "get_config"
    /\ returned' = IF Has(configs, op_arg[t].name)
                   THEN Some(configs[op_arg[t].name]) ELSE None
    /\ UNCHANGED << standaloneVars, monitorVars, notifierVars, now, transport_ok, result, dispatched,
                    cycleObs, alert_log, only_alerts, monitoring_active, monitor_thread,
                    stop_event, lock, steps >>

\* _monitoring_loop, line 376: the stop event is set, the loop ends
WorkerExit(w) ==
    /\ pc[w] = "loop_test"
    /\ stop_event
    /\ Goto(w, "exited")
    /\ UNCHANGED << dataVars, monitoring_active, monitor_thread, stop_event, lock,
                    op_arg, steps >>

\* _monitoring_loop, line 376: the stop event is not set, a cycle begins
WorkerBeginCycle(w) ==
    /\ pc[w] = "loop_test"
    /\ ~stop_event
    /\ steps < MaxOps
    /\ Goto(w, "w_collect")
    /\ steps' = steps + 1
    /\ UNCHANGED << dataVars, monitoring_active, monitor_thread, stop_event, lock, op_arg >>

\* _monitoring_loop, line 379: _collect_all_metrics, outside the lock
WorkerCollect(w) ==
    /\ pc[w] = "w_collect"
    /\ Goto(w, "w_publish_metrics")
    /\ UNCHANGED << dataVars, monitoring_active, monitor_thread, stop_event, lock,
                    op_arg, steps >>

\* the loop without the try/except of lines 377-403: the exception ends the thread
WorkerCollectKills(w) ==
    /\ pc[w] = "w_collect"
    /\ Goto(w, "exited")
    /\ UNCHANGED << dataVars, monitoring_active, monitor_thread, stop_event, lock,
                    op_arg, steps >>

\* _monitoring_loop, line 379: _collect_all_metrics raises; the exception is caught at
\* lines 402-403 and the worker goes to the wait of line 405
WorkerCollectFails(w) ==
    /\ pc[w] = "w_collect"
    /\ Goto(w, "w_wait")
    /\ UNCHANGED << dataVars, monitoring_active, monitor_thread, stop_event, lock,
                    op_arg, steps >>

\* _monitoring_loop, lines 381-382: latest_metrics stored under the lock
WorkerPublishMetrics(w) ==
    /\ pc[w] = "w_publish_metrics"
    /\ CanAcquire(w)
    /\ Goto(w, "cm_lock")
    /\ UNCHANGED << dataVars, monitoring_active, monitor_thread, stop_event, lock,
                    op_arg, steps >>

\* _monitoring_loop, lines 387-388: latest_result stored under the lock
WorkerPublishResult(w) ==
    /\ pc[w] = "w_publish_result"
    /\ CanAcquire(w)
    /\ Goto(w, "w_wait")
    /\ UNCHANGED << dataVars, monitoring_active, monitor_thread, stop_event, lock,
                    op_arg, steps >>

\* a loop that tests the stop event only before its first cycle: the wait of line 405
\* is followed by the next cycle
WorkerWaitStartsCycle(w) ==
    /\ pc[w] = "w_wait"
    /\ IF steps < MaxOps
       THEN Goto(w, "w_collect") /\ steps' = steps + 1
       ELSE Goto(w, "loop_test") /\ UNCHANGED steps
    /\ UNCHANGED << dataVars, monitoring_active, monitor_thread, stop_event, lock, op_arg >>

\* _monitoring_loop, line 405: stop_event.wait(check_interval) returns, because the
\* event is set or because the interval has passed
WorkerWaitReturn(w) ==
    /\ pc[w] = "w_wait"
    /\ Goto(w, "loop_test")
    /\ UNCHANGED << dataVars, monitoring_active, monitor_thread, stop_event, lock,
                    op_arg, steps >>

NextThreads ==
    \/ \E t \in Callers : BeginCall(t)
    \/ \E t \in Callers : StartTest(t)
    \/ \E t \in Callers : StartAcquire(t)
    \/ \E t \in Callers : StartSetActive(t)
    \/ \E t \in Callers : StartClearEvent(t)
    \/ \E t \in Callers : StartSpawn(t)
    \/ \E t \in Callers : StopTest(t)
    \/ \E t \in Callers : StopAcquire(t)
    \/ \E t \in Callers : StopClearActive(t)
    \/ \E t \in Callers : StopSetEvent(t)
    \/ \E t \in Callers : StopJoinDone(t)
    \/ \E t \in Callers : StopJoinTimeout(t)
    \/ \E t \in Callers : CheckCollect(t)
    \/ \E t \in Callers : CheckCollectFails(t)
    \/ \E t \in Threads : CheckAcquire(t)
    \/ \E t \in Threads : CheckExit(t)
    \/ \E t \in Callers : ResetAcquire(t)
    \/ \E t \in Callers : ResetExit(t)
    \/ \E t \in Callers : UmcAcquire(t)
    \/ \E t \in Callers : UmcExit(t)
    \/ \E t \in Callers : CfgAcquire(t)
    \/ \E t \in Callers : CfgCallUpdate(t)
    \/ \E t \in Callers : RegAcquire(t)
    \/ \E t \in Callers : RegCallUpdate(t)
    \/ \E t \in Callers : GetConfig(t)
    \/ \E w \in Workers : WorkerExit(w)
    \/ \E w \in Workers : WorkerBeginCycle(w)
    \/ \E w \in Workers : WorkerCollect(w)
    \/ \E w \in Workers : WorkerCollectFails(w)
    \/ \E w \in Workers : WorkerPublishMetrics(w)
    \/ \E w \in Workers : WorkerPublishResult(w)
    \/ \E w \in Workers : WorkerWaitReturn(w)

SpecThreads == InitThreads /\ [][NextThreads]_vars

\* the steps of stop() after its test that need nothing from another thread
StopProgress(t) ==
    \/ StopTest(t) \/ StopClearActive(t) \/ StopSetEvent(t)
    \/ StopJoinDone(t) \/ StopJoinTimeout(t)

\* the steps by which worker w leaves the inter-cycle wait and the loop
WorkerLeaves(w) == WorkerWaitReturn(w) \/ WorkerExit(w)

\* collection by worker w comes to an end, with the samples or with an exception
WorkerCollects(w) == WorkerCollect(w) \/ WorkerCollectFails(w)

\* the steps of worker w that wait for the lock
WorkerLocks(w) == WorkerPublishMetrics(w) \/ CheckAcquire(w) \/ WorkerPublishResult(w)

\* SpecThreads with threads that keep running: a stop() or a worker that can take its
\* next step takes it (collectors and the transport return), and a stop() or a worker
\* that waits for the lock gets it if the lock becomes free again and again
SpecThreadsFair ==
    /\ InitThreads /\ [][NextThreads]_vars
    /\ \A t \in Callers : WF_pc(StopProgress(t)) /\ SF_pc(StopAcquire(t))
    /\ \A w \in Workers : WF_pc(WorkerLeaves(w)) /\ WF_pc(WorkerCollects(w))
    /\ \A w \in Workers : SF_pc(WorkerLocks(w))

----------------------------------------------------------------------------
\* Vocabulary of the claims about check_metrics cycles

\* number of payloads of one kind handed to the transport for m by the last operation
Payloads(kind, m) ==
    Cardinality({i \in 1 .. Len(dispatched) :
                    dispatched[i].kind = kind /\ dispatched[i].metric = m})

\* number of payloads for m the transport accepted in the last operation
Delivered(m) ==
    Cardinality({i \in 1 .. Len(dispatched) :
                    dispatched[i].metric = m /\ dispatched[i].delivered})

\* recorded notifications of m inside the one-hour window when the last operation began
RecentBefore(m) ==
    LET ts == Get(alert_timestamps, m, << >>)
    IN  Cardinality({i \in 1 .. Len(ts) : ts[i] > now - Hour}) - Delivered(m)

BelowRateCap(m) == RecentBefore(m) < rate_limit_per_hour

CycleDone == last_op = "check_metrics"

\* the sustained event the last cycle reported for m
EventOf(m) ==
    result.anomalies[CHOOSE i \in 1 .. Len(result.anomalies) :
                        result.anomalies[i].metric = m]

\* the last cycle was a recovery transition of m: no raw positive after the counter
\* had reached min_anomaly_duration
RecoveryTransition(m) ==
    /\ CycleDone
    /\ m \notin detected
    /\ pre_counters[m] >= min_anomaly_duration

----------------------------------------------------------------------------
\* C1: with a notifier, a succeeding transport and the metric below its rate cap, the
\* first cycle in which a metric's counter reaches min_anomaly_duration while its
\* notifier state is NORMAL hands exactly one alert payload for it to the transport.
C1_AlertOnEnteringAlarm ==
    \A m \in Metrics :
        ( /\ CycleDone
          /\ has_notifier
          /\ transport_ok
          /\ BelowRateCap(m)
          /\ m \in SustainedNames(result)
          /\ ~pre_alarm[m] )
        => Payloads("alert", m) = 1

\* C2: with recovery notifications enabled, a succeeding transport and the metric below
\* its rate cap, the cycle of a recovery transition hands exactly one recovery payload
\* for the metric to the transport and leaves its notifier state NORMAL.
C2_RecoveryOnTransition ==
    \A m \in Metrics :
        ( /\ RecoveryTransition(m)
          /\ has_notifier
          /\ enable_recovery
          /\ transport_ok
          /\ BelowRateCap(m) )
        => /\ Payloads("recovery", m) = 1
           /\ ~Get(alert_states, m, FALSE)

\* C6: a run of fewer than min_anomaly_duration raw-positive cycles yields no sustained
\* event: a metric whose current run is shorter than min_anomaly_duration is not in
\* the cycle's anomalies, and no history entry holds an event of shorter duration (nor
\* is an entry appended by a cycle without sustained events).
C6_ShortStreakNoEvent ==
    /\ CycleDone =>
         \A m \in Metrics :
            streak[m] < min_anomaly_duration => m \notin SustainedNames(result)
    /\ \A i \in 1 .. Len(anomaly_history) :
         /\ anomaly_history[i].anomalies # << >>
         /\ \A j \in 1 .. Len(anomaly_history[i].anomalies) :
              anomaly_history[i].anomalies[j].duration >= min_anomaly_duration

\* a run of min_anomaly_duration - 1 >= 1 raw positives just ended without an event
C6_Witness ==
    \E m \in Metrics :
        /\ CycleDone
        /\ min_anomaly_duration >= 2
        /\ pre_counters[m] = min_anomaly_duration - 1
        /\ m \notin detected
        /\ m \notin SustainedNames(result)
        /\ anomaly_history = << >>

\* C7: the k-th cycle of a run of raw positives reports a sustained event iff
\* k >= min_anomaly_duration; the event's duration is k, its severity 'medium' up to
\* k = 2 * min_anomaly_duration and 'high' beyond.
C7_SustainedFromKthCycle ==
    CycleDone =>
        \A m \in detected :
            /\ m \in SustainedNames(result) <=> streak[m] >= min_anomaly_duration
            /\ m \in SustainedNames(result) =>
                 /\ EventOf(m).duration = streak[m]
                 /\ EventOf(m).severity =
                      IF streak[m] <= 2 * min_anomaly_duration THEN "medium" ELSE "high"

\* a run long enough to be reported with severity 'high'
C7_Witness ==
    \E m \in Metrics :
        /\ CycleDone
        /\ m \in SustainedNames(result)
        /\ streak[m] > 2 * min_anomaly_duration
        /\ EventOf(m).severity = "high"

\* C8: after every cycle a metric's counter is the length of its current run of
\* raw-positive cycles (counted since construction or the last reset()): one more than
\* before in a raw-positive cycle, exactly 0 after a cycle without one, never negative.
C8_CounterIsRunLength ==
    \A m \in Metrics :
        /\ Get(anomaly_counters, m, 0) = streak[m]
        /\ Get(anomaly_counters, m, 0) >= 0
        /\ CycleDone =>
             Get(anomaly_counters, m, 0) =
                 IF m \in detected THEN pre_counters[m] + 1 ELSE 0

\* a counter that had grown, below min_anomaly_duration, is back at 0
C8_Witness ==
    \E m \in Metrics :
        /\ CycleDone
        /\ pre_counters[m] >= 1
        /\ pre_counters[m] < min_anomaly_duration
        /\ m \notin detected
        /\ Has(anomaly_counters, m)
        /\ anomaly_counters[m] = 0

\* C9: per cycle and metric at most one alert and at most one recovery payload; an
\* alert only when the metric is sustained and was not ALARMED before the cycle, a
\* recovery only in a recovery transition; and no payload at all for a metric that is
\* sustained (or not sustained) in this cycle as in the previous one.
C9_NoRepeatedNotification ==
    CycleDone =>
        \A m \in Metrics :
            /\ Payloads("alert", m) <= 1
            /\ Payloads("recovery", m) <= 1
            /\ Payloads("alert", m) = 1 =>
                 m \in SustainedNames(result) /\ ~pre_alarm[m]
            /\ Payloads("recovery", m) = 1 => RecoveryTransition(m)
            /\ (m \in SustainedNames(result)) = (m \in prev_sustained) =>
                 Payloads("alert", m) + Payloads("recovery", m) = 0

\* a metric sustained in two cycles in a row, notifier and transport available
C9_Witness ==
    \E m \in Metrics :
        /\ CycleDone
        /\ has_notifier
        /\ transport_ok
        /\ m \in SustainedNames(result)
        /\ m \in prev_sustained
        /\ pre_alarm[m]
        /\ Payloads("alert", m) = 0

----------------------------------------------------------------------------
\* C10: with rate_limit_per_hour = N and a succeeding transport, of successive
\* send_anomaly_alert calls for one metric (and no other notifier call) the first N made
\* within one hour return true, the (N+1)-th within that hour returns false, and a
\* call made once every recorded timestamp is more than one hour old returns true.
C10_RateLimitedAfterN ==
    LET N == rate_limit_per_hour
        one_metric == \A i \in 1 .. Len(alert_log) : alert_log[i].metric = alert_log[1].metric
        within(k) == alert_log[k].t - alert_log[1].t < Hour
        rolled(k) == \A i \in 1 .. k - 1 : alert_log[k].t - alert_log[i].t > Hour
    IN  (only_alerts /\ one_metric) =>
            \A k \in 1 .. Len(alert_log) :
                /\ (k <= N /\ within(k)) => alert_log[k].ret
                /\ (k = N + 1 /\ within(k)) => ~alert_log[k].ret
                /\ (k > 1 /\ rolled(k)) => alert_log[k].ret

----------------------------------------------------------------------------
\* Claims about threads (SpecThreads)

\* control points inside a `with self.lock` block that touches detectors, counters,
\* notifier state or history
CheckSection == {"cm_body"}
StateSections == {"cm_body", "reset_body", "umc_body"}

\* C3: a configure_metric or register_custom_metric call made while the lock is free
\* returns with the lock released: no caller ever waits, inside the nested
\* update_metric_config call, for a lock that it holds itself
C3_ConfigureReturns ==
    \A t \in Callers : ~(pc[t] = "umc_lock" /\ lock = t)

\* C4: under every interleaving of start() and stop() calls at most one worker thread
\* is executing _monitoring_loop
C4_AtMostOneWorker == Cardinality(Running) <= 1

\* C5: while one thread is part-way through the locked block of check_metrics, no
\* other thread is inside the locked block of check_metrics, reset or
\* update_metric_config
C5_CheckIsAtomic ==
    \A t \in Threads :
        pc[t] \in CheckSection =>
            /\ lock = t
            /\ \A u \in Threads \ {t} : pc[u] \notin StateSections

\* a worker is part-way through a check while a caller that wants to check, reset or
\* reconfigure waits for the lock
C5_Witness ==
    \E w \in Workers : \E t \in Callers :
        /\ pc[w] = "cm_body"
        /\ pc[t] \in {"cm_lock", "reset_lock", "umc_lock"}
        /\ lock = w

----------------------------------------------------------------------------
\* Claims about the notifier's bookkeeping (SpecNotifier)

\* the send calls so far that delivered a notification for metric m
DeliveredCalls(m) ==
    {i \in 1 .. Len(alert_log) : alert_log[i].ret /\ alert_log[i].metric = m}

\* the last send call was for metric m and reached the rate-limit check
LastCallChecked(m) ==
    /\ last_op \in {"send_anomaly_alert", "send_recovery_notification"}
    /\ alert_log # << >>
    /\ alert_log[Len(alert_log)].metric = m
    /\ last_op = "send_recovery_notification" => alert_log[Len(alert_log)].ret

\* C11: a metric's timestamp list never holds more than rate_limit_per_hour entries, no
\* more than rate_limit_per_hour notifications (alerts and recoveries) are delivered for
\* it within one hour, and after a rate-limit check at time t every timestamp kept is
\* later than t - 3600
C11_RateWindowBound ==
    \A m \in Metrics :
        /\ Len(Get(alert_timestamps, m, << >>)) <= rate_limit_per_hour
        /\ \A k \in DeliveredCalls(m) :
               Cardinality({i \in DeliveredCalls(m) :
                               i <= k /\ alert_log[i].t > alert_log[k].t - Hour})
                   <= rate_limit_per_hour
        /\ LastCallChecked(m) =>
               \A i \in 1 .. Len(Get(alert_timestamps, m, << >>)) :
                   alert_timestamps[m][i] > alert_log[Len(alert_log)].t - Hour

\* a send was refused by the rate limit alone with a full list, after an older
\* timestamp had been pruned
C11_Witness ==
    \E m \in Metrics :
        /\ LastCallChecked(m)
        /\ last_op = "send_anomaly_alert"
        /\ ~alert_log[Len(alert_log)].ret
        /\ ~Get(alert_states, m, FALSE)
        /\ transport_ok
        /\ Len(Get(alert_timestamps, m, << >>)) = rate_limit_per_hour
        /\ Cardinality(DeliveredCalls(m)) > rate_limit_per_hour

\* the step is a notifier send call during which the transport failed
TransportFailedInCall ==
    /\ steps' = steps + 1
    /\ last_op' \in {"send_anomaly_alert", "send_recovery_notification"}
    /\ dispatched' # << >>
    /\ \A i \in 1 .. Len(dispatched') : ~dispatched'[i].delivered

\* the timestamps of list ts that are inside the hour ending at time t
InWindow(ts, t) == SelectSeq(ts, LAMBDA x : x > t - Hour)

\* the flags of every metric are the same before and after the step
FlagsUnchanged ==
    \A m \in Metrics :
        /\ Get(alert_states', m, FALSE) = Get(alert_states, m, FALSE)
        /\ Get(recovery_sent', m, FALSE) = Get(recovery_sent, m, FALSE)

\* C13 as stated: a send call during which the transport fails returns false and leaves
\* the inAlarm flag, the recoverySent flag and the recorded timestamps of every metric
\* exactly as they were before the call
C13_FailedSendChangesNothing ==
    [][TransportFailedInCall =>
          /\ returned' = FALSE
          /\ FlagsUnchanged
          /\ \A m \in Metrics :
                 Get(alert_timestamps', m, << >>) = Get(alert_timestamps, m, << >>)]_vars

\* C13 amended: a send call during which the transport fails returns false, leaves the
\* flags as they were and records no timestamp: the list afterwards is the list before
\* the call without the timestamps that had left the one-hour window
C13_FailedSendRecordsNothing ==
    [][TransportFailedInCall =>
          /\ returned' = FALSE
          /\ FlagsUnchanged
          /\ \A m \in Metrics :
                 /\ InWindow(Get(alert_timestamps', m, << >>), now)
                        = InWindow(Get(alert_timestamps, m, << >>), now)
                 /\ Len(Get(alert_timestamps', m, << >>))
                        <= Len(Get(alert_timestamps, m, << >>))]_vars

\* a recovery was attempted for an ALARMED metric with room in its window, and the
\* transport failed
C13_Witness ==
    /\ last_op = "send_recovery_notification"
    /\ returned = FALSE
    /\ dispatched # << >>
    /\ ~dispatched[1].delivered
    /\ Get(alert_states, dispatched[1].metric, FALSE)
    /\ Len(Get(alert_timestamps, dispatched[1].metric, << >>)) > 0

\* the step is a call of send_recovery_notification for metric m
RecoveryCall(m) ==
    /\ steps' = steps + 1
    /\ last_op' = "send_recovery_notification"
    /\ alert_log'[Len(alert_log')].metric = m

\* the latest notifier call so far was a delivered recovery for metric m
JustRecovered(m) ==
    /\ last_op = "send_recovery_notification"
    /\ returned = TRUE
    /\ alert_log[Len(alert_log)].metric = m

\* C14: send_recovery_notification for a metric that is not ALARMED returns false and
\* sends nothing; a delivered recovery leaves the metric not ALARMED, and a further
\* recovery request with no new alarm in between returns false
C14_RecoveryOnlyWhenAlarmed ==
    [][\A m \in Metrics :
          /\ (RecoveryCall(m) /\ ~Get(alert_states, m, FALSE)) =>
                 (returned' = FALSE /\ dispatched' = << >>)
          /\ (RecoveryCall(m) /\ returned' = TRUE) => ~Get(alert_states', m, FALSE)
          /\ (RecoveryCall(m) /\ JustRecovered(m)) =>
                 (returned' = FALSE /\ dispatched' = << >>)]_vars

\* a recovery was delivered for an ALARMED metric and the next recovery request for the
\* same metric was refused
C14_Witness ==
    /\ Len(alert_log) >= 3
    /\ last_op = "send_recovery_notification"
    /\ returned = FALSE
    /\ dispatched = << >>
    /\ alert_log[Len(alert_log)].kind = "recovery"
    /\ alert_log[Len(alert_log) - 1].kind = "recovery"
    /\ alert_log[Len(alert_log) - 1].ret = TRUE
    /\ alert_log[Len(alert_log) - 1].metric = alert_log[Len(alert_log)].metric
    /\ alert_log[Len(alert_log) - 2].kind = "alert"
    /\ alert_log[Len(alert_log) - 2].ret = TRUE

----------------------------------------------------------------------------
\* Claims about stop() (SpecThreadsFair)

\* the step is caller t returning from stop() after the join
StopReturns(t) == pc[t] = "stop_join" /\ pc'[t] = "idle"

\* every thread that takes the lock releases it (collectors and the transport return,
\* and no thread waits for the lock it holds itself)
LockReleased == []<>(lock = Free)

----------------------------------------------------------------------------
\* Claims about failures inside a cycle (SpecCycle)

\* the last operation was a check_metrics() that collected its samples
Collected == last_op = "check_metrics" /\ ~IsNone(collected.system)

\* C18: when a custom collector raises, the collected sample map lacks only that
\* collector's sample: every custom collector that returned has its value in the map,
\* every system metric is present, and the cycle goes on to detection (every numeric
\* sample of a metric with a detector gets a score)
C18_OnlyFailedCollectorOmitted ==
    Collected =>
        /\ \A c \in DOMAIN collected.custom :
               IF collected.custom[c] = Raised
               THEN IF c \in Metrics
                    THEN Get(result.metrics, c, Raised) = The(collected.system)[c]
                    ELSE c \notin DOMAIN result.metrics
               ELSE Get(result.metrics, c, Raised) = collected.custom[c]
        /\ DOMAIN collected.custom = custom_collectors
        /\ Metrics \subseteq DOMAIN result.metrics
        /\ DOMAIN result.metrics \subseteq Metrics \cup custom_collectors
        /\ \A m \in DOMAIN result.metrics :
               (m \in DOMAIN configs /\ result.metrics[m] # NotANumber) =>
                   m \in DOMAIN result.scores

\* a custom collector raised, another one returned a sample, and that sample was scored
C18_Witness ==
    /\ Collected
    /\ \E c, d \in DOMAIN collected.custom :
           /\ collected.custom[c] = Raised
           /\ c \notin DOMAIN result.metrics
           /\ collected.custom[d] \in SampleValues
           /\ d \in DOMAIN result.scores

\* the detector update of metric m raises in a cycle that is given the samples metrics
Raises(metrics, m) ==
    \/ m \in DOMAIN CumsumUpdates(metrics) /\ CumsumUpdates(metrics)[m].raised
    \/ m \in DOMAIN EwmaUpdates(metrics) /\ EwmaUpdates(metrics)[m].raised

\* the part of a cycle's outcome that belongs to metric o: its score, its events, its
\* counter and its detector
OutcomeOf(o, res, counters, dets, edets) ==
    << Get(res.scores, o, None),
       SelectSeq(res.anomalies, LAMBDA a : a.metric = o),
       Get(counters, o, None), Get(dets, o, None), Get(edets, o, None) >>

\* C19: when the detector update of one metric raises inside check_metrics, the result
\* has no score and no event for that metric, and the score, events, counter and
\* detector of every other metric are what they would have been had the metric's sample
\* been a number
C19_RaisingDetectorIsolated ==
    [][(last_op' = "check_metrics" /\ steps' = steps + 1) =>
          \A m \in DOMAIN result'.metrics :
              Raises(result'.metrics, m) =>
                  /\ m \notin DOMAIN result'.scores
                  /\ m \notin SustainedNames(result')
                  /\ \A v \in SampleValues :
                        \E c \in {Check([result'.metrics EXCEPT ![m] = v])} :
                            \A o \in (DOMAIN configs) \ {m} :
                                OutcomeOf(o, result', anomaly_counters', detectors',
                                          ewma_detectors')
                                    = OutcomeOf(o, c.result, c.anomaly_counters,
                                                c.detectors, c.ewma_detectors)]_vars

\* a cycle in which the update of one metric's detector raised while another metric had
\* a sustained event
C19_Witness ==
    /\ last_op = "check_metrics"
    /\ \E m \in DOMAIN result.metrics :
           /\ result.metrics[m] = NotANumber
           /\ m \in DOMAIN detectors
           /\ ~IsNone(detectors[m].reference_mean)
           /\ m \notin DOMAIN result.scores
           /\ \E o \in SustainedNames(result) : o # m

----------------------------------------------------------------------------
\* Claims about the anomaly history (SpecHistory)

\* the history after a cycle whose result res has a sustained event, given the history h
\* before it: res is the newest entry, the entries of h come before it in their order,
\* and the oldest entry of h is gone exactly when h was full
Appended(h, res, h2) ==
    /\ h2 # << >>
    /\ h2[Len(h2)] = res
    /\ SubSeq(h2, 1, Len(h2) - 1) = (IF Len(h) < HistoryCap THEN h ELSE Tail(h))

\* C15: anomaly_history changes only when check_metrics appends the result of a cycle
\* with at least one sustained event or when reset() empties it; it never holds more
\* than 100 results, and once full every append drops the oldest entry, so it is the
\* most recent (at most 100) sustained-cycle results in order
C15_HistoryAppendOnly ==
    [][/\ Len(anomaly_history') <= HistoryCap
       /\ (last_op' = "check_metrics" /\ steps' = steps + 1) =>
              IF result'.anomalies # << >>
              THEN Appended(anomaly_history, result', anomaly_history')
              ELSE anomaly_history' = anomaly_history
       /\ (last_op' = "reset" /\ steps' = steps + 1) => anomaly_history' = << >>
       /\ anomaly_history' # anomaly_history =>
              (steps' = steps + 1 /\ last_op' \in {"check_metrics", "reset"})]_vars

\* the history is full, its newest entry is the cycle just completed, and its oldest
\* entry is not the first sustained cycle of the run: an entry has been dropped
C15_Witness ==
    /\ last_op = "check_metrics"
    /\ Len(anomaly_history) = HistoryCap
    /\ result.anomalies # << >>
    /\ anomaly_history[HistoryCap] = result
    /\ anomaly_history[1].anomalies[1].duration > min_anomaly_duration
    /\ anomaly_history[2].anomalies[1].duration
           = anomaly_history[1].anomalies[1].duration + 1

----------------------------------------------------------------------------
\* Claims about a monitor whose notifier's rate window can be full (SpecGateway)

\* C12: when a cycle reports a sustained event for a metric whose notifier state was
\* NORMAL and the metric's rate window is full, no payload is sent and the notifier
\* state of the metric is still NORMAL after the cycle
C12_RateLimitedStaysNormal ==
    \A m \in Metrics :
        (/\ CycleDone
         /\ m \in SustainedNames(result)
         /\ ~pre_alarm[m]
         /\ ~BelowRateCap(m))
        => /\ Payloads("alert", m) = 0
           /\ ~Get(alert_states, m, FALSE)

\* the raw positives of a cycle that is given the samples metrics
RawPositives(metrics) ==
    DetectedAnomalies(metrics, CumsumUpdates(metrics), EwmaUpdates(metrics))

\* what a cycle makes of the monitor's own state, written without the notifier, the
\* transport and the rate limit: detectors updated with their samples, counters
\* incremented for raw positives and zeroed otherwise, the result built from the
\* sustained events raw, and the history extended when there is one
ExpectedDetectors(dets, updates) ==
    [m \in DOMAIN dets |-> IF m \in DOMAIN updates THEN updates[m].det ELSE dets[m]]
ExpectedCounters(raw) ==
    [m \in (DOMAIN anomaly_counters) \cup MetricNames(raw) |->
        IF m \in MetricNames(raw) THEN Get(anomaly_counters, m, 0) + 1 ELSE 0]
ExpectedResult(metrics, events) ==
    [timestamp |-> now, has_anomalies |-> events # << >>, anomaly_count |-> Len(events),
     anomalies |-> events, metrics |-> metrics,
     scores |-> Scores(CumsumUpdates(metrics), EwmaUpdates(metrics))]
ExpectedHistory(res) ==
    IF res.anomalies = << >> THEN anomaly_history
    ELSE IF Len(anomaly_history) < HistoryCap THEN Append(anomaly_history, res)
    ELSE Append(Tail(anomaly_history), res)

\* C20: the result of a check_metrics call and the detectors, counters and history after
\* it are a function of the monitor's own state before the call and of the samples:
\* they are the same with or without a notifier and whatever the dispatches of the
\* cycle do (delivered, failed, refused as duplicate or rate limited)
C20_DispatchDoesNotInterfere ==
    [][(last_op' = "check_metrics" /\ steps' = steps + 1) =>
          /\ result' = ExpectedResult(result'.metrics,
                           FilterSustained(RawPositives(result'.metrics),
                                           anomaly_counters, << >>, now).sustained)
          /\ detectors' = ExpectedDetectors(detectors, CumsumUpdates(result'.metrics))
          /\ ewma_detectors'
                 = ExpectedDetectors(ewma_detectors, EwmaUpdates(result'.metrics))
          /\ anomaly_counters' = ExpectedCounters(RawPositives(result'.metrics))
          /\ anomaly_history' = ExpectedHistory(result')]_vars

\* a cycle with a notifier whose alert for a sustained metric was refused because the
\* metric's rate window was full
C20_Witness ==
    /\ CycleDone
    /\ has_notifier
    /\ \E m \in SustainedNames(result) :
           /\ ~BelowRateCap(m)
           /\ ~pre_alarm[m]
           /\ Payloads("alert", m) = 0
    /\ anomaly_history # << >>
    /\ anomaly_history[Len(anomaly_history)] = result

----------------------------------------------------------------------------
\* Claims about reset and reconfiguration (SpecAdmin)

\* a detector of either class that has no state: as built by its constructor
Unset(det) ==
    IF "cumsum_pos" \in DOMAIN det
    THEN det.cumsum_pos = RZero /\ det.cumsum_neg = RZero /\ IsNone(det.reference_mean)
    ELSE IsNone(det.ewma) /\ IsNone(det.ewmvar)

\* C21: after reset() returns every detector is unset, the anomaly counters and the
\* history are empty, and the notifier state of every metric is the initial one:
\* not in alarm, no recovery sent, no recorded alert timestamp
C21_ResetClearsEverything ==
    last_op = "reset" =>
        /\ \A m \in DOMAIN detectors : Unset(detectors[m])
        /\ \A m \in DOMAIN ewma_detectors : Unset(ewma_detectors[m])
        /\ anomaly_counters = EmptyDict
        /\ anomaly_history = << >>
        /\ \A m \in Metrics :
               /\ ~Get(alert_states, m, FALSE)
               /\ ~Get(recovery_sent, m, FALSE)
               /\ Get(alert_timestamps, m, << >>) = << >>

\* the arguments of the update_metric_config call that was the last operation
ConfigCall == op_arg.main
ConfigCalled == last_op = "update_metric_config"

\* two dicts agree on every key but name
SameElsewhere(d, d2, name) ==
    \A m \in ((DOMAIN d) \cup (DOMAIN d2)) \ {name} :
        m \in DOMAIN d /\ m \in DOMAIN d2 /\ d[m] = d2[m]

\* C22: after update_metric_config(name, config) with an enabled CUMSUM or EWMA config
\* the metric has exactly one detector, of the config's algorithm, in its initial state
\* (CUMSUM: accumulators 0, reference config.reference_mean or unset; EWMA: mean and
\* variance unset) whatever detector it had before; the configs and the detectors of
\* all other metrics are unchanged
C22_EnabledConfigBuildsFreshDetector ==
    [][(last_op' = "update_metric_config" /\ steps' = steps + 1) =>
          \A name \in {op_arg'.main.name}, config \in {op_arg'.main.config} :
              /\ (config.enabled /\ config.algorithm = "CUMSUM") =>
                    /\ ~Has(ewma_detectors', name)
                    /\ Has(detectors', name)
                    /\ detectors'[name] =
                          [threshold |-> config.threshold, drift |-> config.drift,
                           cumsum_pos |-> RZero, cumsum_neg |-> RZero,
                           reference_mean |-> config.reference_mean]
              /\ (config.enabled /\ config.algorithm = "EWMA") =>
                    /\ ~Has(detectors', name)
                    /\ Has(ewma_detectors', name)
                    /\ ewma_detectors'[name] =
                          [alpha |-> config.alpha,
                           threshold_sigma |-> config.threshold_sigma,
                           ewma |-> None, ewmvar |-> None]
              /\ SameElsewhere(configs, configs', name)
              /\ SameElsewhere(detectors, detectors', name)
              /\ SameElsewhere(ewma_detectors, ewma_detectors', name)]_vars

\* a metric whose EWMA detector had absorbed samples was given a CUMSUM config, and a
\* metric whose CUMSUM detector had been updated was given an EWMA config
C22_Witness ==
    /\ ConfigCalled
    /\ steps >= 3
    /\ configs["cpu_percent"].algorithm = "EWMA"
    /\ configs["net_sent_mb"] = CfgCumsumRef
    /\ ConfigCall.name = "net_sent_mb"
    /\ Has(result.scores, "net_sent_mb") /\ Has(result.scores, "cpu_percent")
    /\ DOMAIN detectors = {"net_sent_mb"}
    /\ DOMAIN ewma_detectors = {"cpu_percent"}
    /\ Unset(ewma_detectors["cpu_percent"])

\* C23: after update_metric_config(name, config) with enabled = false the metric has a
\* detector in neither map while get_config(name) returns the config; as long as the
\* metric's config is disabled a check_metrics cycle yields no score and no event for
\* it; the enabled config that ends this builds a detector with no state
C23_DisabledMetricHasNoDetector ==
    /\ \A m \in DOMAIN configs :
           ~configs[m].enabled =>
               /\ ~Has(detectors, m) /\ ~Has(ewma_detectors, m)
               /\ CycleDone => /\ ~Has(result.scores, m)
                               /\ m \notin SustainedNames(result)
                               /\ m \notin detected
    /\ (ConfigCalled /\ ~ConfigCall.config.enabled) =>
           get_config(ConfigCall.name) = Some(ConfigCall.config)
    /\ (ConfigCalled /\ ConfigCall.config.enabled) =>
           /\ Has(detectors, ConfigCall.name) =>
                  /\ detectors[ConfigCall.name].cumsum_pos = RZero
                  /\ detectors[ConfigCall.name].cumsum_neg = RZero
           /\ Has(ewma_detectors, ConfigCall.name) =>
                  Unset(ewma_detectors[ConfigCall.name])
           /\ ConfigCall.config.algorithm \in {"CUMSUM", "EWMA"} =>
                  (Has(detectors, ConfigCall.name)
                      \/ Has(ewma_detectors, ConfigCall.name))

\* a cycle that was given an anomalous sample of a metric disabled by an earlier
\* update_metric_config call and reported nothing for it, while the config is retained
C23_Witness ==
    /\ CycleDone
    /\ get_config("cpu_percent") = Some(CfgDisabled)
    /\ Has(result.metrics, "cpu_percent")
    /\ result.metrics["cpu_percent"] = RInt(MaxSample)
    /\ ~Has(result.scores, "cpu_percent")
    /\ Has(result.scores, "net_sent_mb")
    /\ "cpu_percent" \notin DOMAIN detectors

\* C24: update_metric_config called with invalid per-metric parameters (an algorithm
\* tag that is neither 'CUMSUM' nor 'EWMA') fails and leaves the metric's previous
\* config and detector unchanged
C24_InvalidConfigRejected ==
    [][(/\ last_op' = "update_metric_config"
        /\ steps' = steps + 1
        /\ op_arg'.main.config.algorithm \notin {"CUMSUM", "EWMA"})
       => /\ configs' = configs
          /\ detectors' = detectors
          /\ ewma_detectors' = ewma_detectors]_vars

----------------------------------------------------------------------------
\* Claims about a detector object on its own (SpecDetector)

\* the update calls logged so far were made on a CUMSUM object that had a reference
\* and both accumulators at 0 when the first of them was made
CumsumStream ==
    /\ lone_updates # << >>
    /\ IsCumsum(lone_detector)
    /\ ~IsNone(lone_updates[1].before.reference_mean)
    /\ lone_updates[1].before.cumsum_pos = RZero
    /\ lone_updates[1].before.cumsum_neg = RZero
StreamReference == The(lone_updates[1].before.reference_mean)
RLeq(x, y) == ~RLess(y, x)

\* C25: for a CUMSUM detector with a set reference and drift d > 0, a stream in which
\* every value v has |v - reference| <= d never makes update return is_anomaly = true
C25_DeadBandNeverDetects ==
    (/\ CumsumStream
     /\ RLess(RZero, lone_detector.drift)
     /\ \A i \in 1 .. Len(lone_updates) :
            /\ RLeq(RSub(lone_updates[i].value, StreamReference), lone_detector.drift)
            /\ RLeq(RSub(StreamReference, lone_updates[i].value), lone_detector.drift))
    => \A i \in 1 .. Len(lone_updates) : ~lone_updates[i].is_anomaly

\* the (is_anomaly, score) results of a log of update calls
ResultsOf(log) == [i \in 1 .. Len(log) |-> << log[i].is_anomaly, log[i].score >>]

\* C26: for a CUMSUM or EWMA detector in any reachable state, reset() followed by any
\* sequence of updates yields the same (is_anomaly, score) results as the same sequence
\* applied to a freshly constructed detector with the same parameters
C26_ResetIsLikeNew ==
    ~IsNone(fresh_detector) =>
        /\ ResultsOf(lone_updates) = ResultsOf(The(fresh_detector).updates)
        /\ lone_detector = The(fresh_detector).det

\* a detector that had been used, was reset, and has since reported a detection
C26_Witness ==
    /\ ~IsNone(fresh_detector)
    /\ last_op = "update"
    /\ Len(lone_updates) >= 2
    /\ steps >= Len(lone_updates) + 2
    /\ Unset(lone_updates[1].before)
    /\ lone_updates[Len(lone_updates)].is_anomaly

\* every update of the stream was given the same value
ConstantStream ==
    \A i \in 1 .. Len(lone_updates) : lone_updates[i].value = lone_updates[1].value

\* C27: for a CUMSUM detector under a sustained constant shift beyond the dead band,
\* once an update has reported an anomaly the immediately following update with the
\* same input also reports is_anomaly = true with score > threshold
C27_DetectionRepeatsUnderShift ==
    (/\ CumsumStream
     /\ ConstantStream
     /\ RLess(lone_detector.drift, RSub(lone_updates[1].value, StreamReference)))
    => \A i \in 1 .. Len(lone_updates) - 1 :
           lone_updates[i].is_anomaly =>
               /\ lone_updates[i + 1].is_anomaly
               /\ RLess(lone_detector.threshold, lone_updates[i + 1].score)

\* C28: both CUMSUM accumulators are >= 0 in every reachable state; right after an
\* update that returned is_anomaly = true both are 0 and the returned score is above
\* the threshold; after an update that returned false the larger accumulator is the
\* returned score and is at most the threshold
C28_AccumulatorBounds ==
    IsCumsum(lone_detector) =>
        /\ RLeq(RZero, lone_detector.cumsum_pos)
        /\ RLeq(RZero, lone_detector.cumsum_neg)
        /\ \A i \in 1 .. Len(lone_updates) :
               IF lone_updates[i].is_anomaly
               THEN /\ lone_updates[i].after.cumsum_pos = RZero
                    /\ lone_updates[i].after.cumsum_neg = RZero
                    /\ RLess(lone_detector.threshold, lone_updates[i].score)
               ELSE /\ RMax(lone_updates[i].after.cumsum_pos,
                            lone_updates[i].after.cumsum_neg) = lone_updates[i].score
                    /\ RLeq(lone_updates[i].score, lone_detector.threshold)

\* a detector both of whose accumulators have been non-zero at once and that has
\* then reported a detection
C28_Witness ==
    /\ IsCumsum(lone_detector)
    /\ Len(lone_updates) >= 3
    /\ RLess(RZero, lone_updates[1].after.cumsum_neg)
    /\ RLess(RZero, lone_updates[2].after.cumsum_pos)
    /\ RLess(RZero, lone_updates[2].after.cumsum_neg)
    /\ lone_updates[Len(lone_updates)].is_anomaly
    /\ lone_detector.cumsum_pos = RZero

\* value - reference_mean - drift of the i-th logged update
Shift(i) ==
    RSub(RSub(lone_updates[i].value, The(lone_updates[i].before.reference_mean)),
         lone_detector.drift)

\* the logged updates a .. a + k - 1 are a run of one constant input above
\* reference + drift that began with the positive accumulator at 0, and none of them
\* but possibly the last reported an anomaly
Run(a, k) ==
    /\ IsCumsum(lone_detector)
    /\ a + k - 1 <= Len(lone_updates)
    /\ ~IsNone(lone_updates[a].before.reference_mean)
    /\ lone_updates[a].before.cumsum_pos = RZero
    /\ RLess(RZero, Shift(a))
    /\ \A i \in a .. a + k - 1 : lone_updates[i].value = lone_updates[a].value
    /\ \A i \in a .. a + k - 2 : ~lone_updates[i].is_anomaly

\* the run is followed by one more update with the same input
Continued(a, k) ==
    /\ a + k <= Len(lone_updates)
    /\ lone_updates[a + k].value = lone_updates[a].value

\* what every run does up to and including its first detection
RunRises(a, k) ==
    /\ ~lone_updates[a + k - 1].is_anomaly =>
           lone_updates[a + k - 1].after.cumsum_pos = RMul(RInt(k), Shift(a))
    /\ RLess(lone_detector.threshold, RMul(RInt(k), Shift(a))) =>
           lone_updates[a + k - 1].is_anomaly

\* C29 as stated: fed a constant input r + d + e (e > 0) from a zero positive
\* accumulator, the positive accumulator after k updates is k * e as long as it has not
\* exceeded the threshold, the first update that brings it above the threshold returns
\* is_anomaly = true, and the update after that leaves the positive accumulator at e
C29_RunThenRestartAtE ==
    \A a \in 1 .. Len(lone_updates), k \in 1 .. Len(lone_updates) :
        Run(a, k) =>
            /\ RunRises(a, k)
            /\ (lone_updates[a + k - 1].is_anomaly /\ Continued(a, k)) =>
                   lone_updates[a + k].after.cumsum_pos = Shift(a)

\* C29 as the code has it: the same, but the update after the detection starts from 0
\* and therefore leaves the positive accumulator at e only when e <= threshold; when e
\* alone exceeds the threshold it reports an anomaly again and leaves it at 0
C29_RunThenRestartFromZero ==
    \A a \in 1 .. Len(lone_updates), k \in 1 .. Len(lone_updates) :
        Run(a, k) =>
            /\ RunRises(a, k)
            /\ (lone_updates[a + k - 1].is_anomaly /\ Continued(a, k)) =>
                   /\ lone_updates[a + k].before.cumsum_pos = RZero
                   /\ IF RLeq(Shift(a), lone_detector.threshold)
                      THEN /\ ~lone_updates[a + k].is_anomaly
                           /\ lone_updates[a + k].after.cumsum_pos = Shift(a)
                      ELSE /\ lone_updates[a + k].is_anomaly
                           /\ lone_updates[a + k].after.cumsum_pos = RZero

\* the claim's scenario: values at the reference, then a constant input above the dead
\* band that is detected on its second update and leaves e after the third
C29_Witness ==
    /\ Len(lone_updates) = 4
    /\ Run(2, 2)
    /\ Continued(2, 2)
    /\ RLess(RZero, lone_updates[1].after.cumsum_neg)
    /\ ~lone_updates[2].is_anomaly
    /\ lone_updates[3].is_anomaly
    /\ lone_detector.cumsum_pos = Shift(2)

\* C30: on a detector whose reference (CUMSUM) or mean (EWMA) is unset, update(v)
\* returns (false, 0), sets the reference / mean to v and leaves the CUMSUM accumulators
\* at 0 (the EWMA variance at 0); once the CUMSUM reference is set no update changes it
C30_FirstUpdateSetsReference ==
    \A i \in 1 .. Len(lone_updates) :
        \A e \in {lone_updates[i]} :
            IF IsCumsum(e.before)
            THEN IF IsNone(e.before.reference_mean)
                 THEN /\ ~e.is_anomaly /\ e.score = RZero
                      /\ e.after.reference_mean = Some(e.value)
                      /\ e.after.cumsum_pos = RZero /\ e.after.cumsum_neg = RZero
                 ELSE e.after.reference_mean = e.before.reference_mean
            ELSE IsNone(e.before.ewma) =>
                     /\ ~e.is_anomaly /\ e.score = RZero
                     /\ e.after.ewma = Some(e.value)
                     /\ e.after.ewmvar = Some(RZero)

\* a CUMSUM detector that took its reference from its first update and still has it
\* after a later update with another value reported a detection
C30_Witness ==
    /\ IsCumsum(lone_detector)
    /\ Len(lone_updates) >= 3
    /\ IsNone(lone_updates[1].before.reference_mean)
    /\ lone_updates[Len(lone_updates)].is_anomaly
    /\ lone_updates[Len(lone_updates)].value # lone_updates[1].value
    /\ lone_detector.reference_mean = Some(lone_updates[1].value)

\* C31: with alpha = 1, after every update of an initialised EWMA detector the mean is
\* the input value and the variance is (value - previous mean) squared, whatever the
\* earlier inputs were
C31_AlphaOneSingleStepMemory ==
    \A i \in 1 .. Len(lone_updates) :
        \A e \in {lone_updates[i]} :
            (~IsCumsum(e.before) /\ e.before.alpha = ROne /\ ~IsNone(e.before.ewma)) =>
                /\ e.after.ewma = Some(e.value)
                /\ e.after.ewmvar =
                       Some(RMul(RSub(e.value, The(e.before.ewma)),
                                 RSub(e.value, The(e.before.ewma))))

\* an EWMA detector with alpha = 1 that held a non-zero variance and a mean away from
\* its first input before its last update
C31_Witness ==
    /\ ~IsCumsum(lone_detector)
    /\ lone_detector.alpha = ROne
    /\ Len(lone_updates) >= 4
    /\ lone_updates[Len(lone_updates)].before.ewmvar # Some(RZero)
    /\ lone_updates[Len(lone_updates)].before.ewma # lone_updates[2].before.ewma
    /\ lone_detector.ewmvar = Some(RInt(1))
    /\ lone_detector.ewma = Some(RInt(3))

----------------------------------------------------------------------------
\* Claims about the notifier state a monitor keeps across cycles (Spec)

InAlarm(m) == Get(alert_states, m, FALSE)

\* C32: over any sequence of check_metrics cycles a metric's alert_states flag goes
\* from false to true only in a cycle that produced a sustained event for the metric,
\* and from true to false only in a cycle that is a recovery transition for it or
\* through reset()
C32_AlarmFlagFollowsEvents ==
    [][\A m \in Metrics :
          /\ (~InAlarm(m) /\ InAlarm(m)') =>
                 /\ last_op' = "check_metrics"
                 /\ m \in SustainedNames(result')
          /\ (InAlarm(m) /\ ~InAlarm(m)') =>
                 \/ last_op' = "reset"
                 \/ RecoveryTransition(m)']_vars

\* a cycle that was a recovery transition of a metric in alarm and took it out of alarm,
\* after an earlier cycle had put it into alarm
C32_Witness ==
    \E m \in Metrics :
        /\ has_notifier
        /\ RecoveryTransition(m)
        /\ pre_alarm[m]
        /\ ~InAlarm(m)
        /\ Len(anomaly_history) >= 1

----------------------------------------------------------------------------
\* Claims about the worker loop and the lock (SpecThreads)

\* C33: while the stop signal is set no worker begins a cycle: a worker in the middle
\* of a cycle finishes at most that cycle, and a worker in the inter-cycle wait leaves
\* it without running a cycle, until start() clears the signal again
C33_NoCycleBeginsAfterStop ==
    [][\A w \in Workers :
          stop_event => ~(pc[w] \notin MidCyclePcs /\ pc'[w] \in MidCyclePcs)]_vars

\* the stop signal was set while a worker that has run a cycle, and could run another,
\* is in its inter-cycle wait
C33_Witness ==
    /\ stop_event
    /\ steps >= 1
    /\ steps < MaxOps
    /\ \E w \in Workers : pc[w] = "w_wait"


(***************************************************************************)
(* C34.  The collection step of a cycle, manual or worker-driven, iterates  *)
(* the custom-collector map.  The claim: a thread is in its collection     *)
(* step only while it holds the monitor lock, so no step of another thread *)
(* changes custom_collectors while a collection is in progress.  The       *)
(* formula states the consequence: while some thread is collecting, the    *)
(* map stays as it is.                                                     *)
(* _collect_all_metrics is called before `with self.lock` in check_metrics *)
(* and without any lock in _monitoring_loop, while register_custom_metric  *)
(* writes the map under the lock.                                          *)
(***************************************************************************)
Collecting(t) == pc[t] \in {"cm_collect", "w_collect"}

C34_CollectionHoldsLock ==
    [][\A t \in Threads :
          Collecting(t) => custom_collectors' = custom_collectors]_vars


(***************************************************************************)
(* C35.  A CUMSUM metric of a monitor with min_anomaly_duration >= 2 whose  *)
(* every sample v has |v - reference - drift| <= threshold is never         *)
(* detected in two consecutive check_metrics cycles: a detection zeroes    *)
(* both accumulators, and one deviation within the threshold cannot exceed *)
(* it from zero.  So the metric's counter stays below 2, no cycle returns  *)
(* a sustained event for it and its alarm flag is never set, however long  *)
(* the signal stays shifted.                                               *)
(***************************************************************************)
\* |The sample of the last cycle - reference - drift| <= threshold, for the detector of m
WithinBand(m) ==
    \/ IsNone(collected.system)
    \/ IsNone(detectors[m].reference_mean)
    \/ \E dev \in {RSub(RSub(The(collected.system)[m], The(detectors[m].reference_mean)),
                        detectors[m].drift)} :
           /\ RLeq(dev, detectors[m].threshold)
           /\ RLeq(RSub(RZero, dev), detectors[m].threshold)

NeverSustained(m) ==
    /\ streak[m] <= 1
    /\ Get(anomaly_counters, m, 0) <= 1
    /\ m \notin SustainedNames(result)
    /\ ~InAlarm(m)
    /\ \A i \in 1 .. Len(anomaly_history) : m \notin SustainedNames(anomaly_history[i])

FirstCycleOfFresh(cfgs, metrics) ==
    LET cu == [m \in (DOMAIN InitialDetectors(cfgs)) \cap (DOMAIN metrics)
                  |-> CUMSUM_update(InitialDetectors(cfgs)[m], metrics[m])]
        eu == [m \in (DOMAIN InitialEwmaDetectors(cfgs)) \cap (DOMAIN metrics)
                  |-> EWMA_update(InitialEwmaDetectors(cfgs)[m], metrics[m])]
    IN  [scores |-> Scores(cu, eu),
         sustained |-> IF IsSustained(1, min_anomaly_duration)
                       THEN {m \in DOMAIN cu : cu[m].is_anomaly}
                                \cup {m \in DOMAIN eu : eu[m].is_anomaly}
                       ELSE {}]

C36_ResetIsLikeFreshMonitor ==
    [][(last_op = "reset" /\ last_op' = "check_metrics") =>
          /\ result'.scores = FirstCycleOfFresh(configs, result'.metrics).scores
          /\ SustainedNames(result') = FirstCycleOfFresh(configs, result'.metrics).sustained]_vars


(***************************************************************************)
(* C37.  update_metric_config replaces the config and the detector of one  *)
(* metric and nothing else: the consecutive-anomaly counters, the notifier *)
(* state, last_metric_values and the history are as before the call.  So   *)
(* in the cycle that follows the call a detection by the new detector is   *)
(* counted on top of the detections of the old one, and is reported as     *)
(* sustained when that sum reaches min_anomaly_duration.                   *)
(***************************************************************************)
C37_UpdateConfigKeepsCounters ==
    [][/\ (ConfigCalled' /\ steps' # steps) =>
            /\ anomaly_counters' = anomaly_counters
            /\ alert_states' = alert_states
            /\ recovery_sent' = recovery_sent
            /\ alert_timestamps' = alert_timestamps
            /\ last_metric_values' = last_metric_values
            /\ anomaly_history' = anomaly_history
       /\ (last_op = "update_metric_config" /\ last_op' = "check_metrics") =>
            \A m \in detected' :
                /\ anomaly_counters'[m] = Get(anomaly_counters, m, 0) + 1
                /\ m \in SustainedNames(result')
                       <=> Get(anomaly_counters, m, 0) + 1 >= min_anomaly_duration]_vars

\* a metric detected once by its old detector has just been given a new detector, in a
\* monitor that reports a metric on its second consecutive detection
C37_Witness ==
    /\ last_op = "update_metric_config"
    /\ min_anomaly_duration = 2
    /\ Get(anomaly_counters, ConfigCall.name, 0) = 1
    /\ ConfigCall.config = CfgCumsumRef
    /\ detectors[ConfigCall.name] = NewCumsum(CfgCumsumRef)


(***************************************************************************)
(* C38.  The config configure_metric builds.  For a metric that has a      *)
(* config: every parameter the caller did not write keeps the value of the *)
(* existing config, the algorithm tag and the enabled flag included.  For  *)
(* a metric without a config: every written value is taken as it is, a    *)
(* written 0 too, and threshold 5.0, drift 0.5, alpha 0.3 and              *)
(* threshold_sigma 3.0 are used only for parameters not written.           *)
(***************************************************************************)
ConfigParameters ==
    {"algorithm", "threshold", "drift", "alpha", "threshold_sigma", "enabled"}

\* the calls of configure_metric that have built their config
Built == {t \in Callers : op_arg[t].op = "configure_metric" /\ ~IsNone(op_arg[t].config)}

DefaultOf(p) ==
    [threshold |-> Rat(5, 1), drift |-> Rat(1, 2), alpha |-> Rat(3, 10),
     threshold_sigma |-> Rat(3, 1)][p]

C38_ConfigureMetricMerges ==
    \A t \in Built :
        \A call \in {op_arg[t].given}, config \in {op_arg[t].config} :
            IF Has(configs, op_arg[t].name)
            THEN /\ \A p \in ConfigParameters :
                        IsNone(call[p]) => config[p] = configs[op_arg[t].name][p]
                 /\ IsNone(call.reference_mean) =>
                        config.reference_mean = configs[op_arg[t].name].reference_mean
            ELSE /\ \A p \in ConfigParameters :
                        ~IsNone(call[p]) => config[p] = The(call[p])
                 /\ \A p \in {"threshold", "drift", "alpha", "threshold_sigma"} :
                        IsNone(call[p]) => config[p] = DefaultOf(p)
                 /\ config.reference_mean = call.reference_mean


(***************************************************************************)
(* C39.  A cycle in which a metric with a non-zero counter has no sample   *)
(* (its collector raised) or its detector update raised: the counter is    *)
(* set to 0 and, when the counter had reached min_anomaly_duration, the    *)
(* cycle is that metric's recovery transition, handled as a cycle with a   *)
(* normal reading of the metric handles it: same counter, same notifier    *)
(* state and same payloads for the metric.                                 *)
(***************************************************************************)
\* m has a detector, and the cycle fed metrics gets nothing out of it: no sample, or
\* an update that raises
NoReading(m, metrics) ==
    /\ Has(detectors, m) \/ Has(ewma_detectors, m)
    /\ \/ ~Has(metrics, m)
       \/ Has(detectors, m) /\ CUMSUM_update(detectors[m], metrics[m]).raised
       \/ Has(ewma_detectors, m) /\ EWMA_update(ewma_detectors[m], metrics[m]).raised

\* what a cycle leaves for metric m: its counter, its notifier state, its payloads
HandlingOf(m, c) ==
    [counter |-> Get(c.anomaly_counters, m, 0),
     state |-> Get(c.n.states, m, FALSE),
     sent |-> Get(c.n.sent, m, FALSE),
     stamps |-> Get(c.n.ts, m, << >>),
     payloads |-> SelectSeq(c.out, LAMBDA p : p.metric = m),
     last_value |-> Get(c.last_metric_values, m, NotANumber)]

C39_MissingReadingIsNormalReading ==
    [][\A m \in DOMAIN configs :
          ( /\ last_op' = "check_metrics"
            /\ steps' = steps + 1
            /\ Get(anomaly_counters, m, 0) > 0
            /\ NoReading(m, result'.metrics) ) =>
              /\ anomaly_counters'[m] = 0
              /\ m \notin SustainedNames(result')
              /\ \A v \in SampleValues :
                    \A normal \in {Check(Put(result'.metrics, m, v))} :
                        m \notin normal.detected =>
                            HandlingOf(m, normal) =
                                [counter |-> anomaly_counters'[m],
                                 state |-> Get(alert_states', m, FALSE),
                                 sent |-> Get(recovery_sent', m, FALSE),
                                 stamps |-> Get(alert_timestamps', m, << >>),
                                 payloads |-> SelectSeq(dispatched', LAMBDA p : p.metric = m),
                                 last_value |-> Get(last_metric_values', m, NotANumber)]]_vars

\* queue_depth was reported in the cycle before, its collector raised in this one: the
\* counter is back at 0 and the notifier has it as normal
C39_Witness ==
    /\ last_op = "check_metrics"
    /\ has_notifier
    /\ "queue_depth" \in prev_sustained
    /\ collected.custom["queue_depth"] = Raised
    /\ ~Has(result.metrics, "queue_depth")
    /\ anomaly_counters["queue_depth"] = 0
    /\ ~InAlarm("queue_depth")

====
